---- MODULE Spec2Model ----
(***************************************************************************)
(* Model of the content search of ContentstackService (src/unnamed/part_002)*)
(* getAllEntries, searchContent, intelligentSearch and the helpers they    *)
(* call (enhanceQuery, fuzzyMatch, calculateSimilarity,                    *)
(* levenshteinDistance), and of the two callers that put search results   *)
(* into an LLM prompt: BotService.testBot (src/unnamed/part_001) and       *)
(* POST /chat-with-content (src/routes/chat.js).                           *)
(*                                                                         *)
(* Spec runs one call of the service at a time, ConcSpec several           *)
(* invocations in flight, EnhanceSpec enhanceQuery on its own and          *)
(* PathwaySpec one run of testBot or of the route.  StringSpec applies     *)
(* the string functions to drawn arguments, BulkSpec runs                  *)
(* bulkCreateEntries, StreamSpec one POST /stream with                     *)
(* generateStreamingResponse (src/services/llmService.js), and BotSpec     *)
(* the calls that change the bot list of BotService.                       *)
(*                                                                         *)
(* JavaScript strings are sequences of one-character strings, so that      *)
(* toLowerCase, includes, split and charAt are computed, not assumed.      *)
(* JavaScript values are records tagged with their typeof in field t.      *)
(***************************************************************************)
EXTENDS Integers, Sequences, FiniteSets, TLC

VARIABLES
    pc,            \* where the call in progress stands
    op,            \* the method the caller invoked
    args,          \* its destructured parameters, defaults applied
    outstanding,   \* fetches sent and not yet settled
    fetchCount,    \* fetches sent by this call
    requests,      \* the fetch requests sent by this call, in order
    fetched,       \* the entries the fetch of the running method returned
    fetchError,    \* the axios error of that fetch, if it failed
    outcome,       \* what the caller gets
    fellBack,      \* intelligentSearch went through its catch
    fallbackArgs,  \* the parameters its catch handed to searchContent
    caught,        \* the error its catch caught
    probes,        \* the helpers invoked
    entryObjects,  \* the objects the fetch returned, as they are now
    termsUsed,     \* the searchTerms local of the running method
    inflight,      \* the invocations of the concurrent service
    pure,          \* an application of a function, or a search, on its own
    pathway,       \* a run of testBot or of POST /chat-with-content
    bulk,          \* a run of bulkCreateEntries
    stream,        \* a run of POST /stream
    registry       \* BotService: its bots and the calls made on them

vars == <<pc, op, args, outstanding, fetchCount, requests, fetched, fetchError,
          outcome, fellBack, fallbackArgs, caught, probes, entryObjects,
          termsUsed, inflight, pure, pathway, bulk, stream, registry>>

\* the state of one call of the service at a time
serviceVars == <<pc, op, args, outstanding, fetchCount, requests, fetched,
                 fetchError, outcome, fellBack, fallbackArgs, caught, probes,
                 entryObjects, termsUsed>>

(***************************************************************************)
(* Bounds of the model.                                                    *)
(***************************************************************************)
MaxEntries == 3
MaxResultsHi == 3
MaxResultsNeg == 1

(***************************************************************************)
(* JavaScript values.                                                      *)
(***************************************************************************)
Undefined == [t |-> "undefined"]
Null == [t |-> "null"]
Str(s) == [t |-> "string", s |-> s]
Num(n) == [t |-> "number", n |-> n]
\* a number that is the quotient n / d
Ratio(n, d) == [t |-> "number", n |-> n, d |-> d]
Arr(items) == [t |-> "array", items |-> items]
Obj == [t |-> "object"]
EmptyStr == Str(<< >>)

Truthy(v) ==
    CASE v.t = "string" -> v.s # << >>
      [] v.t = "number" -> v.n # 0
      [] v.t = "object" -> TRUE
      [] v.t = "array" -> TRUE
      [] OTHER -> FALSE

\* a || b || ... : the first truthy operand, else the last one
RECURSIVE OrChain(_)
OrChain(vs) ==
    IF Len(vs) = 1 \/ Truthy(Head(vs)) THEN Head(vs) ELSE OrChain(Tail(vs))

(***************************************************************************)
(* String primitives.                                                      *)
(***************************************************************************)
UpperChars == <<"A","B","C","D","E","F","G","H","I","J","K","L","M",
                "N","O","P","Q","R","S","T","U","V","W","X","Y","Z">>
LowerChars == <<"a","b","c","d","e","f","g","h","i","j","k","l","m",
                "n","o","p","q","r","s","t","u","v","w","x","y","z">>

UpperToLower == [c \in {UpperChars[i] : i \in 1..26} |->
                    LowerChars[CHOOSE i \in 1..26 : UpperChars[i] = c]]

LowerChar(c) == IF c \in DOMAIN UpperToLower THEN UpperToLower[c] ELSE c

\* toLowerCase left out
ToLowerCaseIdentity(s) == s

\* String.prototype.toLowerCase
ToLowerCase(s) == [i \in 1..Len(s) |-> LowerChar(s[i])]

\* String.prototype.includes
Includes(s, t) ==
    \E i \in 0..(Len(s) - Len(t)) : SubSeq(s, i + 1, i + Len(t)) = t

\* String.prototype.split(' '): splits at every single space, so two
\* adjacent spaces (or a leading or trailing one) yield an empty piece
RECURSIVE SplitSpace(_)
SplitSpace(s) ==
    IF \E i \in 1..Len(s) : s[i] = " "
    THEN LET i == CHOOSE k \in 1..Len(s) :
                     s[k] = " " /\ \A j \in 1..(k - 1) : s[j] # " "
         IN  <<SubSeq(s, 1, i - 1)>> \o SplitSpace(SubSeq(s, i + 1, Len(s)))
    ELSE <<s>>

\* Array.prototype.join(' ')
RECURSIVE JoinSpace(_)
JoinSpace(ss) ==
    IF ss = << >> THEN << >>
    ELSE IF Len(ss) = 1 THEN ss[1]
    ELSE ss[1] \o <<" ">> \o JoinSpace(Tail(ss))

Min2(a, b) == IF a <= b THEN a ELSE b
Max2(a, b) == IF a >= b THEN a ELSE b

(***************************************************************************)
(* levenshteinDistance: matrix has one row per character of str2 (and row  *)
(* 0) and one column per character of str1 (and column 0).  Sequences      *)
(* start at 1, so matrix[i][j] of the code is matrix[i + 1][j + 1] here.   *)
(***************************************************************************)
\* the row without the substitution case
RECURSIVE LevRowNoSubstitution(_, _, _, _, _)
LevRowNoSubstitution(prev, str1, str2, i, j) ==
    IF j = 0 THEN <<i>>
    ELSE LET left == LevRowNoSubstitution(prev, str1, str2, i, j - 1)
         IN  Append(left,
                    IF str2[i] = str1[j]
                    THEN prev[j]
                    ELSE Min2(left[j] + 1, prev[j + 1] + 1))

\* columns 0..j of row i, filled left to right; prev is row i - 1
RECURSIVE LevRow(_, _, _, _, _)
LevRow(prev, str1, str2, i, j) ==
    IF j = 0 THEN <<i>>
    ELSE LET left == LevRow(prev, str1, str2, i, j - 1)
         IN  Append(left,
                    IF str2[i] = str1[j]
                    THEN prev[j]
                    ELSE Min2(Min2(prev[j] + 1, left[j] + 1), prev[j + 1] + 1))

\* rows 0..i of the matrix
RECURSIVE LevMatrix(_, _, _)
LevMatrix(str1, str2, i) ==
    IF i = 0 THEN << [j \in 1..(Len(str1) + 1) |-> j - 1] >>
    ELSE LET matrix == LevMatrix(str1, str2, i - 1)
         IN  Append(matrix, LevRow(matrix[i], str1, str2, i, Len(str1)))

levenshteinDistance(str1, str2) ==
    LevMatrix(str1, str2, Len(str2))[Len(str2) + 1][Len(str1) + 1]

(***************************************************************************)
(* calculateSimilarity returns (longer.length - distance) / longer.length, *)
(* kept as an exact fraction [num, den]; 1.0 when both strings are empty.  *)
(***************************************************************************)
\* the share of the distance itself, not of what is left of the length
calculateSimilarityDistanceShare(str1, str2) ==
    LET longer == IF Len(str1) > Len(str2) THEN str1 ELSE str2
        shorter == IF Len(str1) > Len(str2) THEN str2 ELSE str1
    IN  IF Len(longer) = 0 THEN [num |-> 1, den |-> 1]
        ELSE [num |-> levenshteinDistance(longer, shorter),
              den |-> Len(longer)]

\* the first string taken as the longer one
calculateSimilarityByFirst(str1, str2) ==
    IF Len(str1) = 0 THEN [num |-> 1, den |-> 1]
    ELSE [num |-> Len(str1) - levenshteinDistance(str1, str2),
          den |-> Len(str1)]

calculateSimilarity(str1, str2) ==
    LET longer == IF Len(str1) > Len(str2) THEN str1 ELSE str2
        shorter == IF Len(str1) > Len(str2) THEN str2 ELSE str1
    IN  IF Len(longer) = 0 THEN [num |-> 1, den |-> 1]
        ELSE [num |-> Len(longer) - levenshteinDistance(longer, shorter),
              den |-> Len(longer)]

\* similarity > 0.7, on the exact fraction
SimilarityThresholdNum == 7
SimilarityThresholdDen == 10
MinFuzzyLen == 3

fuzzyMatch(term, content) ==
    LET words == SplitSpace(content)
    IN  \E w \in 1..Len(words) :
            /\ ~(Len(words[w]) < MinFuzzyLen \/ Len(term) < MinFuzzyLen)
            /\ LET similarity == calculateSimilarity(term, words[w])
               IN  similarity.num * SimilarityThresholdDen
                       > SimilarityThresholdNum * similarity.den

(***************************************************************************)
(* enhanceQuery: the synonym table in its declaration order.               *)
(***************************************************************************)
Synonyms == <<
    [key |-> <<"t","r","a","v","e","l">>,
     words |-> << <<"t","r","i","p">>, <<"j","o","u","r","n","e","y">>,
                  <<"v","a","c","a","t","i","o","n">>, <<"t","o","u","r">> >>],
    [key |-> <<"f","o","o","d">>,
     words |-> << <<"c","u","i","s","i","n","e">>, <<"d","i","n","i","n","g">>,
                  <<"r","e","s","t","a","u","r","a","n","t">>,
                  <<"m","e","a","l">> >>],
    [key |-> <<"h","o","t","e","l">>,
     words |-> << <<"a","c","c","o","m","m","o","d","a","t","i","o","n">>,
                  <<"l","o","d","g","i","n","g">>, <<"s","t","a","y">> >>],
    [key |-> <<"a","c","t","i","v","i","t","y">>,
     words |-> << <<"a","t","t","r","a","c","t","i","o","n">>,
                  <<"e","x","p","e","r","i","e","n","c","e">>,
                  <<"t","h","i","n","g"," ","t","o"," ","d","o">> >>] >>

RECURSIVE EnhanceFrom(_, _, _)
EnhanceFrom(query, enhanced, k) ==
    IF k > Len(Synonyms) THEN enhanced
    ELSE EnhanceFrom(query,
             IF Includes(ToLowerCase(query), Synonyms[k].key)
             THEN enhanced \o <<" ">> \o JoinSpace(Synonyms[k].words)
             ELSE enhanced,
             k + 1)

\* the synonyms appended to the lowercased query
enhanceQueryLowered(query) == EnhanceFrom(query, ToLowerCase(query), 1)

enhanceQuery(query) == EnhanceFrom(query, query, 1)

(***************************************************************************)
(* Content entries: an object is the sequence of its own properties in     *)
(* insertion order, each [k, v].                                           *)
(***************************************************************************)
Field(k, v) == [k |-> k, v |-> v]

HasKey(entry, k) == \E i \in 1..Len(entry) : entry[i].k = k

\* entry.k : undefined when the property is absent
Get(entry, k) ==
    IF HasKey(entry, k)
    THEN entry[CHOOSE i \in 1..Len(entry) : entry[i].k = k].v
    ELSE Undefined

\* { ...entry, k: v } : an existing property keeps its place, a new one is last
SetField(entry, k, v) ==
    IF HasKey(entry, k)
    THEN [i \in 1..Len(entry) |-> IF entry[i].k = k THEN Field(k, v) ELSE entry[i]]
    ELSE Append(entry, Field(k, v))

\* Object.values(entry).filter(value => typeof value === 'string')
RECURSIVE StringValues(_)
StringValues(entry) ==
    IF entry = << >> THEN << >>
    ELSE (IF Head(entry).v.t = "string" THEN <<Head(entry).v.s>> ELSE << >>)
         \o StringValues(Tail(entry))

(***************************************************************************)
(* Errors: message is a sequence of text pieces; respMsg is                *)
(* error.response.data.error_message, empty when there is none.            *)
(***************************************************************************)
NoError == [message |-> << >>, respMsg |-> << >>]
NewError(message) == [message |-> message, respMsg |-> << >>]
TypeErrorNotAFunction == NewError(<<"toLowerCase is not a function">>)

\* error.response?.data?.error_message || error.message
ErrorText(error) ==
    IF error.respMsg # << >> THEN error.respMsg ELSE error.message

Return(value) == [kind |-> "return", value |-> value]
Throw(error) == [kind |-> "throw", error |-> error]
NoOutcome == [kind |-> "none"]

(***************************************************************************)
(* Array.prototype.slice(0, end): end goes through ToIntegerOrInfinity; a  *)
(* negative end counts from the end of the array.                          *)
(***************************************************************************)
ToIntegerOrInfinity(v) ==
    CASE v.t = "number" -> v.n
      [] OTHER -> 0    \* null, and NaN from a non-numeric string

Slice(items, end) ==
    LET relativeEnd == ToIntegerOrInfinity(end)
        final == IF relativeEnd < 0
                 THEN Max2(Len(items) + relativeEnd, 0)
                 ELSE Min2(relativeEnd, Len(items))
    IN  SubSeq(items, 1, final)

(***************************************************************************)
(* .filter(entry => entry.score > 0).sort((a, b) => b.score - a.score):    *)
(* Array.prototype.sort is stable.                                         *)
(***************************************************************************)
ScoreOf(entry) == Get(entry, "score").n

RECURSIVE FilterPositive(_)
FilterPositive(items) ==
    IF items = << >> THEN << >>
    ELSE (IF ScoreOf(Head(items)) > 0 THEN <<Head(items)>> ELSE << >>)
         \o FilterPositive(Tail(items))

\* x goes before the first element the comparator puts after it
InsertByScore(sorted, x) ==
    LET later == {i \in 1..Len(sorted) : ScoreOf(sorted[i]) - ScoreOf(x) < 0}
        at == IF later = {} THEN Len(sorted) + 1
              ELSE CHOOSE i \in later : \A j \in later : i <= j
    IN  SubSeq(sorted, 1, at - 1) \o <<x>> \o SubSeq(sorted, at, Len(sorted))

\* a sort that puts a later entry before the earlier ones of the same score
RECURSIVE SortByScoreDescUnstable(_)
SortByScoreDescUnstable(items) ==
    IF items = << >> THEN << >>
    ELSE LET rest == SortByScoreDescUnstable(SubSeq(items, 1, Len(items) - 1))
             x == items[Len(items)]
             later == {i \in 1..Len(rest) : ScoreOf(rest[i]) - ScoreOf(x) <= 0}
             at == IF later = {} THEN Len(rest) + 1
                   ELSE CHOOSE i \in later : \A j \in later : i <= j
         IN  SubSeq(rest, 1, at - 1) \o <<x>> \o SubSeq(rest, at, Len(rest))

RECURSIVE SortByScoreDesc(_)
SortByScoreDesc(items) ==
    IF items = << >> THEN << >>
    ELSE InsertByScore(SortByScoreDesc(SubSeq(items, 1, Len(items) - 1)),
                       items[Len(items)])

(***************************************************************************)
(* Scoring.  A scorer is a map callback: entry is the object it returns,   *)
(* argument is the object it was called with, as the callback leaves it    *)
(* (the callbacks only read their argument; { ...entry, score } is a new   *)
(* object).  ok is FALSE, and nothing is returned, when (x).toLowerCase()  *)
(* is called on a non-string.                                              *)
(***************************************************************************)
TitleWeight == 5
PlainDescriptionWeight == 3
AllTextWeight == 1
IntelligentDescriptionWeight == 2
FuzzyWeight == 1
ExactPhraseBonus == 10
DefaultMaxResults == 10
SearchFetchLimit == 100
DefaultFetchLimit == 50

\* a forEach that adds 2 for a term found in the description
RECURSIVE PlainTermsScoreLight(_, _, _, _)
PlainTermsScoreLight(searchTerms, title, description, allText) ==
    IF searchTerms = << >> THEN 0
    ELSE LET term == Head(searchTerms)
         IN  (IF Includes(title, term) THEN TitleWeight ELSE 0)
             + (IF Includes(description, term) THEN 2 ELSE 0)
             + (IF Includes(allText, term) THEN AllTextWeight ELSE 0)
             + PlainTermsScoreLight(Tail(searchTerms), title, description, allText)

\* the sum over searchTerms.forEach of what one term adds
RECURSIVE PlainTermsScore(_, _, _, _)
PlainTermsScore(searchTerms, title, description, allText) ==
    IF searchTerms = << >> THEN 0
    ELSE LET term == Head(searchTerms)
         IN  (IF Includes(title, term) THEN TitleWeight ELSE 0)
             + (IF Includes(description, term) THEN PlainDescriptionWeight ELSE 0)
             + (IF Includes(allText, term) THEN AllTextWeight ELSE 0)
             + PlainTermsScore(Tail(searchTerms), title, description, allText)

\* the map callback of searchContent
PlainScoreEntry(entry, searchTerms) ==
    LET titleV == OrChain(<<Get(entry, "title"), EmptyStr>>)
        descriptionV == OrChain(<<Get(entry, "description"), Get(entry, "paris"),
                                  Get(entry, "india"), Get(entry, "content"),
                                  Get(entry, "body"), EmptyStr>>)
    IN  IF titleV.t # "string" \/ descriptionV.t # "string"
        THEN [ok |-> FALSE, argument |-> entry]
        ELSE LET title == ToLowerCase(titleV.s)
                 description == ToLowerCase(descriptionV.s)
                 allText == ToLowerCase(JoinSpace(StringValues(entry)))
                 score == PlainTermsScore(searchTerms, title, description, allText)
             IN  [ok |-> TRUE, argument |-> entry,
                  entry |-> SetField(entry, "score", Num(score))]

RECURSIVE IntelligentTermsScore(_, _, _, _)
IntelligentTermsScore(searchTerms, title, description, content) ==
    IF searchTerms = << >> THEN 0
    ELSE LET term == Head(searchTerms)
         IN  (IF Includes(title, term) THEN TitleWeight ELSE 0)
             + (IF Includes(description, term)
                THEN IntelligentDescriptionWeight ELSE 0)
             + (IF fuzzyMatch(term, content) THEN FuzzyWeight ELSE 0)
             + IntelligentTermsScore(Tail(searchTerms), title, description, content)

\* a callback that looks for the exact phrase of the enhanced query
IntelligentScoreEntryEnhancedPhrase(entry, query, searchTerms) ==
    LET titleV == OrChain(<<Get(entry, "title"), EmptyStr>>)
        descriptionV == OrChain(<<Get(entry, "description"), Get(entry, "paris"),
                                  Get(entry, "india"), EmptyStr>>)
    IN  IF titleV.t # "string" \/ descriptionV.t # "string"
        THEN [ok |-> FALSE, argument |-> entry]
        ELSE LET title == ToLowerCase(titleV.s)
                 description == ToLowerCase(descriptionV.s)
                 content == title \o <<" ">> \o description
                 score == (IF Includes(content, JoinSpace(searchTerms))
                           THEN ExactPhraseBonus ELSE 0)
                          + IntelligentTermsScore(searchTerms, title,
                                                  description, content)
             IN  [ok |-> TRUE, argument |-> entry,
                  entry |-> SetField(SetField(entry, "score", Num(score)),
                                "relevance",
                                Ratio(score, Max2(Len(searchTerms), 1)))]

\* a callback that assigns entry.score and entry.relevance and returns entry
IntelligentScoreEntryInPlace(entry, query, searchTerms) ==
    LET titleV == OrChain(<<Get(entry, "title"), EmptyStr>>)
        descriptionV == OrChain(<<Get(entry, "description"), Get(entry, "paris"),
                                  Get(entry, "india"), EmptyStr>>)
    IN  IF titleV.t # "string" \/ descriptionV.t # "string"
        THEN [ok |-> FALSE, argument |-> entry]
        ELSE LET title == ToLowerCase(titleV.s)
                 description == ToLowerCase(descriptionV.s)
                 content == title \o <<" ">> \o description
                 score == (IF Includes(content, ToLowerCase(query))
                           THEN ExactPhraseBonus ELSE 0)
                          + IntelligentTermsScore(searchTerms, title,
                                                  description, content)
                 assigned == SetField(SetField(entry, "score", Num(score)),
                                      "relevance",
                                      Ratio(score, Max2(Len(searchTerms), 1)))
             IN  [ok |-> TRUE, argument |-> assigned, entry |-> assigned]

\* the map callback of intelligentSearch
IntelligentScoreEntry(entry, query, searchTerms) ==
    LET titleV == OrChain(<<Get(entry, "title"), EmptyStr>>)
        descriptionV == OrChain(<<Get(entry, "description"), Get(entry, "paris"),
                                  Get(entry, "india"), EmptyStr>>)
    IN  IF titleV.t # "string" \/ descriptionV.t # "string"
        THEN [ok |-> FALSE, argument |-> entry]
        ELSE LET title == ToLowerCase(titleV.s)
                 description == ToLowerCase(descriptionV.s)
                 content == title \o <<" ">> \o description
                 score == (IF Includes(content, ToLowerCase(query))
                           THEN ExactPhraseBonus ELSE 0)
                          + IntelligentTermsScore(searchTerms, title,
                                                  description, content)
             IN  [ok |-> TRUE, argument |-> entry,
                  entry |-> SetField(SetField(entry, "score", Num(score)),
                                "relevance",
                                Ratio(score, Max2(Len(searchTerms), 1)))]

(***************************************************************************)
(* Inputs.                                                                 *)
(***************************************************************************)
EntryParis ==
    <<Field("title", Str(<<"P","a","r","i","s"," ","G","e","t","a","w","a","y">>)),
      Field("description", Str(<<"r","o","m","a","n","t","i","c"," ","t","r","i","p">>))>>
EntryTokyo ==
    <<Field("title", Str(<<"T","o","k","y","o"," ","A","d","v","e","n","t","u","r","e">>)),
      Field("description", Str(<<"c","i","t","y"," ","t","o","u","r">>))>>
EntryNights ==
    <<Field("title", Str(<<"P","a","r","i","s"," ","N","i","g","h","t","s">>)),
      Field("description", Str(<<"h","o","t","e","l"," ","s","t","a","y">>))>>
\* a malformed entry: the title is a number
EntryBadTitle ==
    <<Field("title", Num(42)),
      Field("description", Str(<<"c","i","t","y"," ","t","o","u","r">>))>>
\* a null title, no description: the text is under another key
EntryNoTitle ==
    <<Field("title", Null),
      Field("paris", Str(<<"P","a","r","i","s"," ","f","o","o","d">>))>>

\* a malformed entry: the description is an object
EntryBadDescription ==
    <<Field("title", Str(<<"R","o","m","e">>)), Field("description", Obj)>>

EntryPool == {EntryParis, EntryTokyo, EntryNights, EntryBadTitle, EntryNoTitle,
              EntryBadDescription}

\* the store returns each of its entries at most once
EntryLists ==
    UNION {{s \in [1..n -> EntryPool] : \A i, j \in 1..n : s[i] = s[j] => i = j}
           : n \in 0..MaxEntries}

QueryParis == Str(<<"p","a","r","i","s">>)
QueryCityTour == Str(<<"c","i","t","y"," ","t","o","u","r">>)
QueryParisFoodTour ==
    Str(<<"P","a","r","i","s"," ","f","o","o","d"," ","t","o","u","r">>)

\* two spaces between the words
QueryTokyoTour == Str(<<"t","o","k","y","o"," "," ","t","o","u","r">>)

\* a query with a trigger key of enhanceQuery
QueryHotelStay == Str(<<"h","o","t","e","l"," ","s","t","a","y">>)

Queries == {Undefined, EmptyStr, QueryParis, QueryCityTour, QueryParisFoodTour,
            QueryTokyoTour, QueryHotelStay}

(***************************************************************************)
(* The scorers are pure: their values on the entries and queries above are *)
(* computed once and looked up afterwards.                                 *)
(***************************************************************************)
StringQueries == {q \in Queries : q.t = "string" /\ Truthy(q)}

\* searchContent splitting the enhanced query
PlainTermsEnhanced(query) == SplitSpace(ToLowerCase(enhanceQuery(query)))

PlainTerms(query) == SplitSpace(ToLowerCase(query))

\* intelligentSearch splitting the query as given
IntelligentTermsPlain(query) == SplitSpace(ToLowerCase(query))

IntelligentTerms(query) == SplitSpace(ToLowerCase(enhanceQuery(query)))

\* (f @@ << >> is f, with its values computed when the table is built)
PlainScores ==
    [k \in EntryPool \X {PlainTerms(q.s) : q \in StringQueries} |->
        PlainScoreEntry(k[1], k[2])] @@ << >>

IntelligentScores ==
    [k \in EntryPool \X {<<q.s, IntelligentTerms(q.s)>> : q \in StringQueries} |->
        IntelligentScoreEntry(k[1], k[2][1], k[2][2])] @@ << >>

PlainScored(entry, searchTerms) ==
    IF <<entry, searchTerms>> \in DOMAIN PlainScores
    THEN PlainScores[<<entry, searchTerms>>]
    ELSE PlainScoreEntry(entry, searchTerms)

IntelligentScored(entry, query, searchTerms) ==
    IF <<entry, <<query, searchTerms>>>> \in DOMAIN IntelligentScores
    THEN IntelligentScores[<<entry, <<query, searchTerms>>>>]
    ELSE IntelligentScoreEntry(entry, query, searchTerms)

\* which helpers a call has invoked so far
NoProbes == [enhance |-> FALSE, scorer |-> FALSE, fuzzy |-> FALSE]

\* .filter(...).sort(...).slice(0, maxResults)
Rank(scoredEntries, maxResults) ==
    Slice(SortByScoreDesc(FilterPositive(scoredEntries)), maxResults)

\* the fetched objects after entries.map(callback): map calls the callback
\* on the entries in order and stops at the first one that throws, and every
\* object it was called on is as the callback left it
EntriesAfterMap(entries, scored) ==
    [j \in 1..Len(entries) |->
        IF \A m \in 1..(j - 1) : scored[m].ok
        THEN scored[j].argument
        ELSE entries[j]]

(***************************************************************************)
(* searchContent after its fetch, up to its catch: the outcome, the        *)
(* helpers invoked and objects, the fetched entry objects as the body      *)
(* leaves them (slice, filter and sort read them and build new arrays).    *)
(* query and maxResults are the destructured locals.                       *)
(***************************************************************************)
SearchContentBody(entries, query, maxResults) ==
    IF ~Truthy(query)
    THEN [outcome |-> Return(Slice(entries, maxResults)), probes |-> NoProbes,
          objects |-> entries]
    ELSE IF query.t # "string"
    THEN [outcome |-> Throw(TypeErrorNotAFunction), probes |-> NoProbes,
          objects |-> entries]
    ELSE LET searchTerms == PlainTerms(query.s)
             scored == [i \in 1..Len(entries) |->
                            PlainScored(entries[i], searchTerms)]
             ran == [NoProbes EXCEPT !.scorer = entries # << >>]
         IN  IF \E i \in 1..Len(entries) : ~scored[i].ok
             THEN [outcome |-> Throw(TypeErrorNotAFunction), probes |-> ran,
                   objects |-> EntriesAfterMap(entries, scored)]
             ELSE [outcome |->
                       Return(Rank([i \in 1..Len(entries) |-> scored[i].entry],
                                   maxResults)),
                   probes |-> ran,
                   objects |-> EntriesAfterMap(entries, scored)]

(***************************************************************************)
(* intelligentSearch after its fetch, up to its catch.                     *)
(***************************************************************************)
\* the early return tests the query alone
SkipsScoringQueryOnly(allEntries, query) == ~Truthy(query)

\* if (!query || allEntries.length === 0)
SkipsScoring(allEntries, query) == ~Truthy(query) \/ Len(allEntries) = 0

IntelligentSearchBody(allEntries, query, maxResults) ==
    IF SkipsScoring(allEntries, query)
    THEN [outcome |-> Return(Slice(allEntries, maxResults)), probes |-> NoProbes,
          objects |-> allEntries]
    ELSE IF query.t # "string"
    THEN [outcome |-> Throw(TypeErrorNotAFunction),
          probes |-> [NoProbes EXCEPT !.enhance = TRUE],
          objects |-> allEntries]
    ELSE LET searchTerms == IntelligentTerms(query.s)
             scored == [i \in 1..Len(allEntries) |->
                            IntelligentScored(allEntries[i], query.s,
                                              searchTerms)]
             \* fuzzyMatch runs once an entry gets past its toLowerCase calls
             \* and the map stops at the first entry that throws
             ran == [enhance |-> TRUE, scorer |-> TRUE,
                     fuzzy |-> \E i \in 1..Len(allEntries) :
                                   /\ scored[i].ok
                                   /\ \A j \in 1..(i - 1) : scored[j].ok]
         IN  IF \E i \in 1..Len(allEntries) : ~scored[i].ok
             THEN [outcome |-> Throw(TypeErrorNotAFunction), probes |-> ran,
                   objects |-> EntriesAfterMap(allEntries, scored)]
             ELSE [outcome |->
                       Return(Rank([i \in 1..Len(allEntries) |-> scored[i].entry],
                                   maxResults)),
                   probes |-> ran,
                   objects |-> EntriesAfterMap(allEntries, scored)]

(***************************************************************************)
(* getAllEntries after axios.get settles.  A response is                   *)
(* [ok |-> TRUE, entries |-> response.data.entries] or                     *)
(* [ok |-> FALSE, error |-> the axios error].                              *)
(***************************************************************************)
FetchFailedPrefix == <<"Failed to fetch entries: ">>
SearchFailedPrefix == <<"Failed to search content: ">>

GetAllEntriesResult(resp) ==
    IF resp.ok
    THEN Return(IF Truthy(resp.entries) THEN resp.entries.items ELSE << >>)
    ELSE Throw(NewError(FetchFailedPrefix \o ErrorText(resp.error)))

\* a catch that throws a fixed message
SearchContentCatchGeneric(error) == Throw(NewError(SearchFailedPrefix))

\* the catch of searchContent
SearchContentCatch(error) ==
    Throw(NewError(SearchFailedPrefix \o ErrorText(error)))

\* searchContent from the settling of its fetch to its own settling
SearchContentResult(resp, query, maxResults) ==
    LET got == GetAllEntriesResult(resp)
    IN  IF got.kind = "throw"
        THEN [outcome |-> SearchContentCatch(got.error), probes |-> NoProbes,
              objects |-> << >>]
        ELSE LET body == SearchContentBody(got.value, query, maxResults)
             IN  IF body.outcome.kind = "throw"
                 THEN [outcome |-> SearchContentCatch(body.outcome.error),
                       probes |-> body.probes, objects |-> body.objects]
                 ELSE body

\* intelligentSearch from the settling of its fetch to its catch
IntelligentSearchResult(resp, query, maxResults) ==
    LET got == GetAllEntriesResult(resp)
    IN  IF got.kind = "throw"
        THEN [outcome |-> got, probes |-> NoProbes, objects |-> << >>]
        ELSE IntelligentSearchBody(got.value, query, maxResults)

(***************************************************************************)
(* Default parameters of the three methods.                                *)
(***************************************************************************)
Tours == Str(<<"t","o","u","r","s">>)
Tour == Str(<<"t","o","u","r">>)
Default(v, d) == IF v = Undefined THEN d ELSE v

NoArgs == [query |-> Undefined, contentType |-> Undefined, maxResults |-> Undefined]

\* the locals of searchContent({ query, contentType, maxResults })
SearchContentArgs(q, ct, mr) ==
    [query |-> q, contentType |-> Default(ct, Tours),
     maxResults |-> Default(mr, Num(DefaultMaxResults))]

\* the locals of intelligentSearch({ query, contentType, maxResults })
IntelligentSearchArgs(q, ct, mr) ==
    [query |-> q, contentType |-> Default(ct, Tour),
     maxResults |-> Default(mr, Num(DefaultMaxResults))]

\* a catch that hands over the query alone
FallbackArgsQueryOnly(a) == SearchContentArgs(a.query, Undefined, Undefined)

\* what the catch of intelligentSearch hands to searchContent
FallbackArgs(a) == SearchContentArgs(a.query, a.contentType, a.maxResults)

\* the request getAllEntries sends
FetchRequest(ct, limit) ==
    [contentType |-> Default(ct, Tours), limit |-> Default(limit, Num(DefaultFetchLimit))]

(***************************************************************************)
(* The calls made and what the store answers.                              *)
(***************************************************************************)
\* numbers, absent, null and a non-numeric string
MaxResultsValues ==
    {Num(n) : n \in (0 - MaxResultsNeg)..MaxResultsHi}
        \cup {Undefined, Null, Str(<<"a","b","c">>)}

Responses ==
    LET UpstreamErrors ==
            {[message |-> <<"Network Error">>, respMsg |-> << >>],
             [message |-> <<"Request failed with status code 401">>,
              respMsg |-> <<"Invalid access token">>]}
    IN  {[ok |-> TRUE, entries |-> Arr(es)] : es \in EntryLists}
            \cup {[ok |-> TRUE, entries |-> Undefined]}
            \cup {[ok |-> FALSE, error |-> e] : e \in UpstreamErrors}

(***************************************************************************)
(* The state machine.  One call of the service is in progress at a time:   *)
(* pc is "idle", "is_fetch" (intelligentSearch awaits getAllEntries),      *)
(* "sc_fetch" (searchContent awaits getAllEntries), "ga_fetch" (a direct   *)
(* getAllEntries awaits axios.get) or "done" (outcome holds what the       *)
(* caller gets).                                                           *)
(***************************************************************************)
NoInvocations == [calls |-> << >>, log |-> << >>]
NoPathway == [stage |-> "none", route |-> "none"]
\* bulkCreateEntries, POST /stream, or a call on BotService: none running
NotRunning == [stage |-> "none"]

Init ==
    /\ pc = "idle"
    /\ op = "none"
    /\ args = NoArgs
    /\ outstanding = 0
    /\ fetchCount = 0
    /\ requests = << >>
    /\ fetched = << >>
    /\ fetchError = NoError
    /\ outcome = NoOutcome
    /\ fellBack = FALSE
    /\ fallbackArgs = NoArgs
    /\ caught = NoError
    /\ probes = NoProbes
    /\ entryObjects = << >>
    /\ termsUsed = << >>
    /\ inflight = NoInvocations
    /\ pure = [stage |-> "none"]
    /\ pathway = NoPathway
    /\ bulk = [stage |-> "none", entries |-> << >>, publish |-> FALSE,
               index |-> 0, successful |-> << >>, failed |-> << >>,
               created |-> << >>, store |-> << >>, published |-> {},
               minted |-> 0, calls |-> 0, reply |-> << >>]
    /\ stream = NotRunning
    /\ registry = NotRunning

\* a request that is sent twice
SendFetchTwice(ct, limit, pending) ==
    /\ requests' = requests \o <<FetchRequest(ct, limit), FetchRequest(ct, limit)>>
    /\ fetchCount' = fetchCount + 2
    /\ outstanding' = pending + 1

\* getAllEntries sends its request; pending fetches are still unsettled
SendFetch(ct, limit, pending) ==
    /\ requests' = Append(requests, FetchRequest(ct, limit))
    /\ fetchCount' = fetchCount + 1
    /\ outstanding' = pending + 1

CallSearchContent(q, ct, mr) ==
    /\ pc = "idle"
    /\ op' = "searchContent"
    /\ args' = SearchContentArgs(q, ct, mr)
    /\ SendFetch(args'.contentType, Num(SearchFetchLimit), outstanding)
    /\ pc' = "sc_fetch"
    /\ UNCHANGED <<fetched, fetchError, outcome, fellBack, fallbackArgs, caught,
                   probes, entryObjects, termsUsed>>
    /\ UNCHANGED <<inflight, pure, pathway, bulk, stream, registry>>

CallIntelligentSearch(q, ct, mr) ==
    /\ pc = "idle"
    /\ op' = "intelligentSearch"
    /\ args' = IntelligentSearchArgs(q, ct, mr)
    /\ SendFetch(args'.contentType, Num(SearchFetchLimit), outstanding)
    /\ pc' = "is_fetch"
    /\ UNCHANGED <<fetched, fetchError, outcome, fellBack, fallbackArgs, caught,
                   probes, entryObjects, termsUsed>>
    /\ UNCHANGED <<inflight, pure, pathway, bulk, stream, registry>>

CallGetAllEntries(ct, limit) ==
    /\ pc = "idle"
    /\ op' = "getAllEntries"
    /\ args' = NoArgs
    /\ SendFetch(ct, limit, outstanding)
    /\ pc' = "ga_fetch"
    /\ UNCHANGED <<fetched, fetchError, outcome, fellBack, fallbackArgs, caught,
                   probes, entryObjects, termsUsed>>
    /\ UNCHANGED <<inflight, pure, pathway, bulk, stream, registry>>

\* the entries a settled fetch handed to its caller
Fetched(resp) ==
    LET got == GetAllEntriesResult(resp)
    IN  IF got.kind = "return" THEN got.value ELSE << >>

\* the searchTerms local of searchContent once its fetch has settled
SearchContentTerms(resp, query) ==
    IF resp.ok /\ Truthy(query) /\ query.t = "string"
    THEN PlainTerms(query.s) ELSE << >>

\* the searchTerms local of intelligentSearch once its fetch has settled
IntelligentSearchTerms(resp, query) ==
    IF resp.ok /\ ~SkipsScoring(Fetched(resp), query) /\ query.t = "string"
    THEN IntelligentTerms(query.s) ELSE << >>

\* the fetch in flight settles with resp
Settle(resp) ==
    /\ fetched' = Fetched(resp)
    /\ fetchError' = IF resp.ok THEN NoError ELSE resp.error

\* a direct getAllEntries settles
GetAllEntriesResume(resp) ==
    /\ pc = "ga_fetch"
    /\ Settle(resp)
    /\ outstanding' = outstanding - 1
    /\ outcome' = GetAllEntriesResult(resp)
    /\ entryObjects' = Fetched(resp)
    /\ termsUsed' = << >>
    /\ pc' = "done"
    /\ UNCHANGED <<op, args, fetchCount, requests, fellBack, fallbackArgs,
                   caught, probes>>
    /\ UNCHANGED <<inflight, pure, pathway, bulk, stream, registry>>

\* searchContent settles, called directly or from the catch of
\* intelligentSearch, whose caller then gets the same outcome
SearchContentResume(resp) ==
    /\ pc = "sc_fetch"
    /\ Settle(resp)
    /\ LET a == IF fellBack THEN fallbackArgs ELSE args
           r == SearchContentResult(resp, a.query, a.maxResults)
       IN  /\ outcome' = r.outcome
           /\ probes' = [f \in DOMAIN probes |-> probes[f] \/ r.probes[f]]
           /\ entryObjects' = r.objects
           /\ termsUsed' = SearchContentTerms(resp, a.query)
    /\ outstanding' = outstanding - 1
    /\ pc' = "done"
    /\ UNCHANGED <<op, args, fetchCount, requests, fellBack, fallbackArgs, caught>>
    /\ UNCHANGED <<inflight, pure, pathway, bulk, stream, registry>>

\* intelligentSearch settles, or catches and calls searchContent, which
\* sends its own fetch
IntelligentSearchResume(resp) ==
    /\ pc = "is_fetch"
    /\ LET r == IntelligentSearchResult(resp, args.query, args.maxResults)
       IN  /\ probes' = r.probes
           /\ IF r.outcome.kind = "throw"
              THEN /\ caught' = r.outcome.error
                   /\ fellBack' = TRUE
                   /\ fallbackArgs' = FallbackArgs(args)
                   /\ SendFetch(fallbackArgs'.contentType, Num(SearchFetchLimit),
                                outstanding - 1)
                   \* searchContent starts with no entries of its own yet
                   /\ fetched' = << >>
                   /\ fetchError' = NoError
                   /\ entryObjects' = << >>
                   /\ termsUsed' = << >>
                   /\ pc' = "sc_fetch"
                   /\ UNCHANGED outcome
              ELSE /\ Settle(resp)
                   /\ outcome' = r.outcome
                   /\ entryObjects' = r.objects
                   /\ termsUsed' = IntelligentSearchTerms(resp, args.query)
                   /\ outstanding' = outstanding - 1
                   /\ pc' = "done"
                   /\ UNCHANGED <<caught, fellBack, fallbackArgs, requests,
                                  fetchCount>>
    /\ UNCHANGED <<op, args>>
    /\ UNCHANGED <<inflight, pure, pathway, bulk, stream, registry>>

\* the caller has its outcome; the service keeps nothing of the call
Finish ==
    /\ pc = "done"
    /\ pc' = "idle"
    /\ op' = "none"
    /\ args' = NoArgs
    /\ outstanding' = 0
    /\ fetchCount' = 0
    /\ requests' = << >>
    /\ fetched' = << >>
    /\ fetchError' = NoError
    /\ outcome' = NoOutcome
    /\ fellBack' = FALSE
    /\ fallbackArgs' = NoArgs
    /\ caught' = NoError
    /\ probes' = NoProbes
    /\ entryObjects' = << >>
    /\ termsUsed' = << >>
    /\ UNCHANGED <<inflight, pure, pathway, bulk, stream, registry>>

Next ==
    LET ContentTypes == {Undefined, Str(<<"p","r","o","d","u","c","t">>)}
    IN  \/ \E q \in Queries, ct \in ContentTypes, mr \in MaxResultsValues :
               CallSearchContent(q, ct, mr)
        \/ \E q \in Queries, ct \in ContentTypes, mr \in MaxResultsValues :
               CallIntelligentSearch(q, ct, mr)
        \/ \E ct \in ContentTypes, limit \in {Undefined, Num(1)} :
               CallGetAllEntries(ct, limit)
        \/ \E resp \in Responses : GetAllEntriesResume(resp)
        \/ \E resp \in Responses : SearchContentResume(resp)
        \/ \E resp \in Responses : IntelligentSearchResume(resp)
        \/ Finish

Spec == Init /\ [][Next]_vars


(***************************************************************************)
(* enhanceQuery on its own: a query is drawn, then enhanceQuery is applied  *)
(* to it.  The queries are up to MaxWords words joined by single spaces;   *)
(* the empty word gives the leading, trailing and doubled spaces.          *)
(***************************************************************************)
MaxWords == 2

Vocabulary ==
    {<<"t","r","a","v","e","l">>, <<"F","o","o","d">>, <<"H","O","T","E","L">>, <<"a","c","t","i","v","i","t","y">>, <<"t","o","u","r">>, <<"T","r","a","v","e","l","l","i","n","g">>, << >>}

EnhanceInputs ==
    {JoinSpace(ws) : ws \in UNION {[1..n -> Vocabulary] : n \in 0..MaxWords}}

EnhanceInit ==
    /\ pure \in {[stage |-> "input", query |-> q] : q \in EnhanceInputs}
    /\ pc = "idle" /\ op = "none" /\ args = NoArgs /\ outstanding = 0
    /\ fetchCount = 0 /\ requests = << >> /\ fetched = << >>
    /\ fetchError = NoError /\ outcome = NoOutcome /\ fellBack = FALSE
    /\ fallbackArgs = NoArgs /\ caught = NoError /\ probes = NoProbes
    /\ entryObjects = << >> /\ termsUsed = << >>
    /\ inflight = NoInvocations
    /\ pathway = NoPathway
    /\ bulk = [stage |-> "none", entries |-> << >>, publish |-> FALSE,
               index |-> 0, successful |-> << >>, failed |-> << >>,
               created |-> << >>, store |-> << >>, published |-> {},
               minted |-> 0, calls |-> 0, reply |-> << >>]
    /\ stream = NotRunning
    /\ registry = NotRunning

ApplyEnhanceQuery ==
    /\ pure.stage = "input"
    /\ pure' = [stage |-> "output", query |-> pure.query,
                enhanced |-> enhanceQuery(pure.query)]
    /\ UNCHANGED <<serviceVars, inflight, pathway, bulk, stream, registry>>

EnhanceNext == ApplyEnhanceQuery

EnhanceSpec == EnhanceInit /\ [][EnhanceNext]_vars

(***************************************************************************)
(* fuzzyMatch, calculateSimilarity and levenshteinDistance on their own: a *)
(* term and a text are drawn, then the three functions are applied to      *)
(* them.  Terms are the strings of up to MaxStrLen letters, texts the      *)
(* strings of up to MaxStrLen letters, spaces and line breaks; the pairs   *)
(* of words named in the specification are added to them.                  *)
(***************************************************************************)
MaxStrLen == 4

Words ==
    [kitten |-> <<"k","i","t","t","e","n">>,
     sitting |-> <<"s","i","t","t","i","n","g">>,
     night |-> <<"n","i","g","h","t">>,
     nacht |-> <<"n","a","c","h","t">>,
     theNachtFell |-> <<"t","h","e"," ","n","a","c","h","t"," ","f","e","l","l">>]

StringInit ==
    /\ LET StringsOver(alphabet) ==
               UNION {[1..n -> alphabet] : n \in 0..MaxStrLen}
           StringInputs ==
               {[term |-> a, text |-> b] :
                   a \in StringsOver({"a", "b"}),
                   b \in StringsOver({"a", "b", " ", "\n"})}
               \cup {[term |-> Words.kitten, text |-> Words.sitting],
                     [term |-> Words.night, text |-> Words.nacht],
                     [term |-> Words.night, text |-> Words.theNachtFell]}
       IN  pure \in {[stage |-> "arguments", term |-> x.term, text |-> x.text] :
                        x \in StringInputs}
    /\ pc = "idle" /\ op = "none" /\ args = NoArgs /\ outstanding = 0
    /\ fetchCount = 0 /\ requests = << >> /\ fetched = << >>
    /\ fetchError = NoError /\ outcome = NoOutcome /\ fellBack = FALSE
    /\ fallbackArgs = NoArgs /\ caught = NoError /\ probes = NoProbes
    /\ entryObjects = << >> /\ termsUsed = << >>
    /\ inflight = NoInvocations
    /\ pathway = NoPathway
    /\ bulk = [stage |-> "none", entries |-> << >>, publish |-> FALSE,
               index |-> 0, successful |-> << >>, failed |-> << >>,
               created |-> << >>, store |-> << >>, published |-> {},
               minted |-> 0, calls |-> 0, reply |-> << >>]
    /\ stream = NotRunning
    /\ registry = NotRunning

ApplyStringFunctions ==
    /\ pure.stage = "arguments"
    /\ pure' = [stage |-> "values", term |-> pure.term, text |-> pure.text,
                distance |-> levenshteinDistance(pure.term, pure.text),
                similarity |-> calculateSimilarity(pure.term, pure.text),
                fuzzy |-> fuzzyMatch(pure.term, pure.text)]
    /\ UNCHANGED <<serviceVars, inflight, pathway, bulk, stream, registry>>

StringSpec == StringInit /\ [][ApplyStringFunctions]_vars

(***************************************************************************)
(* The entry objects of a search on their own: a method, a query and a     *)
(* maxResults are drawn, then the fetch of the search settles and, when    *)
(* intelligentSearch has caught, the fetch of its searchContent.  objects  *)
(* holds every object the fetches of the call returned, as it was fetched  *)
(* and as the search has left it; fetched holds what the fetches returned. *)
(***************************************************************************)
ObjectInit ==
    /\ pure \in {[stage |-> "arguments", method |-> m, query |-> q,
                  maxResults |-> mr] :
                    m \in {"searchContent", "intelligentSearch"},
                    q \in Queries, mr \in {Undefined, Num(1)}}
    /\ pc = "idle" /\ op = "none" /\ args = NoArgs /\ outstanding = 0
    /\ fetchCount = 0 /\ requests = << >> /\ fetched = << >>
    /\ fetchError = NoError /\ outcome = NoOutcome /\ fellBack = FALSE
    /\ fallbackArgs = NoArgs /\ caught = NoError /\ probes = NoProbes
    /\ entryObjects = << >> /\ termsUsed = << >>
    /\ inflight = NoInvocations
    /\ pathway = NoPathway
    /\ bulk = [stage |-> "none", entries |-> << >>, publish |-> FALSE,
               index |-> 0, successful |-> << >>, failed |-> << >>,
               created |-> << >>, store |-> << >>, published |-> {},
               minted |-> 0, calls |-> 0, reply |-> << >>]
    /\ stream = NotRunning
    /\ registry = NotRunning

\* the fetch of the search settles: searchContent ends; intelligentSearch
\* ends, or catches and calls searchContent
ObjectsSearchResume(resp) ==
    /\ pure.stage = "arguments"
    /\ LET plain == pure.method = "searchContent"
           a == IF plain
                THEN SearchContentArgs(pure.query, Undefined, pure.maxResults)
                ELSE IntelligentSearchArgs(pure.query, Undefined, pure.maxResults)
           r == IF plain
                THEN SearchContentResult(resp, a.query, a.maxResults)
                ELSE IntelligentSearchResult(resp, a.query, a.maxResults)
       IN  pure' = [stage |-> IF ~plain /\ r.outcome.kind = "throw"
                              THEN "caught" ELSE "values",
                    method |-> pure.method, query |-> pure.query,
                    maxResults |-> pure.maxResults,
                    fellBack |-> ~plain /\ r.outcome.kind = "throw",
                    fetched |-> Fetched(resp),
                    objects |-> [i \in 1..Len(Fetched(resp)) |->
                                    [fetched |-> Fetched(resp)[i],
                                     now |-> r.objects[i]]],
                    outcome |-> r.outcome]
    /\ UNCHANGED <<serviceVars, inflight, pathway, bulk, stream, registry>>

\* the fetch of the searchContent called by the catch settles; the objects
\* of the first fetch are still those the callbacks of intelligentSearch left
ObjectsFallbackResume(resp) ==
    /\ pure.stage = "caught"
    /\ LET a == FallbackArgs(IntelligentSearchArgs(pure.query, Undefined,
                                                   pure.maxResults))
           r == SearchContentResult(resp, a.query, a.maxResults)
       IN  pure' = [pure EXCEPT
                       !.stage = "values",
                       !.fetched = @ \o Fetched(resp),
                       !.objects = @ \o [i \in 1..Len(Fetched(resp)) |->
                                            [fetched |-> Fetched(resp)[i],
                                             now |-> r.objects[i]]],
                       !.outcome = r.outcome]
    /\ UNCHANGED <<serviceVars, inflight, pathway, bulk, stream, registry>>

ObjectNext ==
    LET ObjectPool == {EntryParis, EntryNights, EntryTokyo, EntryBadDescription}
        ObjectResponses ==
            {[ok |-> TRUE, entries |-> Arr(es)] :
                es \in UNION {{l \in [1..n -> ObjectPool] :
                                  \A i, j \in 1..n : l[i] = l[j] => i = j}
                              : n \in 0..MaxEntries}}
                \cup {[ok |-> FALSE,
                       error |-> [message |-> <<"Network Error">>,
                                  respMsg |-> << >>]]}
    IN  \/ \E resp \in ObjectResponses : ObjectsSearchResume(resp)
        \/ \E resp \in ObjectResponses : ObjectsFallbackResume(resp)

ObjectSpec == ObjectInit /\ [][ObjectNext]_vars

(***************************************************************************)
(* Several invocations in flight.  The service is one object shared by all *)
(* callers (module.exports = new ContentstackService()); an invocation of  *)
(* an async method runs up to its await, and resumes, alone, when its own  *)
(* fetch settles.  inflight.calls holds the invocations in the order they  *)
(* were made: the method, the parameters as the caller gave them, the      *)
(* locals after the defaults, where it stands, its outcome, and turn, the  *)
(* number of fetches of all invocations that had settled when it           *)
(* completed.  inflight.log is what the network did: every settled fetch,  *)
(* in the order they settled, with the invocation whose request it         *)
(* answered.                                                               *)
(***************************************************************************)
MaxInvocations == 2

\* searchContent / intelligentSearch up to the await of getAllEntries
Invoke(method, q, mr) ==
    /\ Len(inflight.calls) < MaxInvocations
    /\ inflight' =
           [inflight EXCEPT !.calls =
               Append(@,
                  [op |-> method,
                   given |-> [query |-> q, maxResults |-> mr],
                   args |-> IF method = "searchContent"
                            THEN SearchContentArgs(q, Undefined, mr)
                            ELSE IntelligentSearchArgs(q, Undefined, mr),
                   pc |-> IF method = "searchContent" THEN "sc_fetch"
                          ELSE "is_fetch",
                   outcome |-> NoOutcome,
                   fellBack |-> FALSE,
                   turn |-> 0])]
    /\ UNCHANGED <<serviceVars, pure, pathway, bulk, stream, registry>>

\* parameters kept on the shared service object: the last caller's
OwnArgsShared(calls, id) == calls[Len(calls)].args

\* query, contentType and maxResults are locals of the invocation
OwnArgs(calls, id) == calls[id].args

\* the fetch of an intelligentSearch settles
InvocationIntelligentResume(id, resp) ==
    /\ id \in 1..Len(inflight.calls)
    /\ inflight.calls[id].pc = "is_fetch"
    /\ LET a == OwnArgs(inflight.calls, id)
           r == IntelligentSearchResult(resp, a.query, a.maxResults)
       IN  inflight' =
               [calls |->
                   [inflight.calls EXCEPT ![id] =
                       IF r.outcome.kind = "throw"
                       THEN [@ EXCEPT !.pc = "sc_fetch", !.fellBack = TRUE]
                       ELSE [@ EXCEPT !.pc = "done", !.outcome = r.outcome,
                                      !.turn = Len(inflight.log) + 1]],
                log |-> Append(inflight.log, [by |-> id, resp |-> resp])]
    /\ UNCHANGED <<serviceVars, pure, pathway, bulk, stream, registry>>

\* the fetch of a searchContent settles, called directly or from the catch
\* of intelligentSearch
InvocationSearchResume(id, resp) ==
    /\ id \in 1..Len(inflight.calls)
    /\ inflight.calls[id].pc = "sc_fetch"
    /\ LET own == OwnArgs(inflight.calls, id)
           a == IF inflight.calls[id].fellBack THEN FallbackArgs(own) ELSE own
           r == SearchContentResult(resp, a.query, a.maxResults)
       IN  inflight' =
               [calls |->
                   [inflight.calls EXCEPT ![id] =
                       [@ EXCEPT !.pc = "done", !.outcome = r.outcome,
                                 !.turn = Len(inflight.log) + 1]],
                log |-> Append(inflight.log, [by |-> id, resp |-> resp])]
    /\ UNCHANGED <<serviceVars, pure, pathway, bulk, stream, registry>>

ConcNext ==
    LET ConcQueries == {QueryParis, QueryCityTour}
        ConcMaxResults == {Undefined, Num(1)}
        ConcResponses ==
            {[ok |-> TRUE, entries |-> Arr(<<EntryParis, EntryTokyo>>)],
             [ok |-> TRUE, entries |-> Arr(<<EntryTokyo, EntryNights, EntryParis>>)],
             [ok |-> FALSE,
              error |-> [message |-> <<"Network Error">>, respMsg |-> << >>]]}
    IN  \/ \E method \in {"searchContent", "intelligentSearch"},
              q \in ConcQueries, mr \in ConcMaxResults : Invoke(method, q, mr)
        \/ \E id \in 1..MaxInvocations, resp \in ConcResponses :
               InvocationIntelligentResume(id, resp)
        \/ \E id \in 1..MaxInvocations, resp \in ConcResponses :
               InvocationSearchResume(id, resp)

ConcSpec == Init /\ [][ConcNext]_vars

(***************************************************************************)
(* The two callers that put search results into an LLM prompt:             *)
(* BotService.testBot (src/unnamed/part_001) and POST /chat-with-content   *)
(* (src/routes/chat.js).  pathway is one run of one of them: stage is      *)
(* "none", "called" (testBot awaits getBotById), "tb_search" (testBot      *)
(* awaits intelligentSearch, whose fetch is in flight), "tb_fallback" (the *)
(* searchContent called by the catch of intelligentSearch awaits its       *)
(* fetch), "tb_llm" (testBot awaits the LLM), "tb_usage" (testBot awaits   *)
(* updateBotUsage, which has run), "cc_search", "cc_llm" (the same for the *)
(* route) or "done".  A text built                                         *)
(* by a template literal is the sequence of its pieces: the literal parts  *)
(* whole, the interpolated values character by character.                  *)
(***************************************************************************)
MaxPathEntries == 4
BotMaxResults == 3
ChatDefaultMaxResults == 5

RECURSIVE NumToString(_)
NumToString(n) ==
    IF n < 0 THEN <<"-">> \o NumToString(0 - n)
    ELSE IF n < 10 THEN <<<<"0","1","2","3","4","5","6","7","8","9">>[n + 1]>>
    ELSE NumToString(n \div 10) \o NumToString(n % 10)

\* ${value} in a template literal
TemplateString(v) ==
    CASE v.t = "string" -> v.s
      [] v.t = "undefined" -> <<"u","n","d","e","f","i","n","e","d">>
      [] v.t = "null" -> <<"n","u","l","l">>
      [] v.t = "number" -> NumToString(v.n)
      [] OTHER -> <<"[object Object]">>

\* `Title: ${item.title}\nDescription: ${item.description || item.content || ''}`
ContextBlock(item) ==
    <<"Title: ">> \o TemplateString(Get(item, "title"))
        \o <<"\nDescription: ">>
        \o TemplateString(OrChain(<<Get(item, "description"),
                                    Get(item, "content"), EmptyStr>>))

\* relevantContent.map(...).join('\n\n')
RECURSIVE JoinBlocks(_)
JoinBlocks(items) ==
    IF items = << >> THEN << >>
    ELSE IF Len(items) = 1 THEN ContextBlock(items[1])
    ELSE ContextBlock(items[1]) \o <<"\n\n">> \o JoinBlocks(Tail(items))

BotContextHeader ==
    <<"Here's some relevant information from our knowledge base:\n\n">>
ChatContextHeader ==
    <<"You are a helpful assistant. Use the following relevant content to answer the user's question:\n\n">>

SystemMessage(content) == [role |-> "system", content |-> content]

\* the context testBot builds: the system prompt, then the found content if any
BotContext(relevantContent) ==
    <<SystemMessage(<<"systemPrompt">>)>>
        \o (IF Len(relevantContent) > 0
            THEN <<SystemMessage(BotContextHeader \o JoinBlocks(relevantContent))>>
            ELSE << >>)

\* the context the route builds: the request's context (none here), then the
\* found content
ChatContext(relevantContent) ==
    <<SystemMessage(ChatContextHeader \o JoinBlocks(relevantContent))>>

\* the bots of BotService
Bots ==
    <<[id |-> "b1", isActive |-> TRUE, contentType |-> Tour,
       conversationCount |-> 0],
      [id |-> "b2", isActive |-> FALSE, contentType |-> Tours,
       conversationCount |-> 0]>>

PathResponses ==
    LET PathPool == {EntryParis, EntryTokyo, EntryNights, EntryNoTitle,
                     EntryBadTitle}
    IN  {[ok |-> TRUE, entries |-> Arr(es)] :
            es \in UNION {{l \in [1..n -> PathPool] :
                              \A i, j \in 1..n : l[i] = l[j] => i = j}
                          : n \in 0..MaxPathEntries}}
            \cup {[ok |-> FALSE,
                   error |-> [message |-> <<"Network Error">>, respMsg |-> << >>]]}

NoSearch == [method |-> "none", args |-> NoArgs]

Run(stage, route, message, search) ==
    [stage |-> stage, route |-> route, message |-> message, search |-> search,
     botId |-> "none", requested |-> Undefined, fellBack |-> FALSE, fetched |-> << >>, results |-> << >>,
     context |-> << >>, reply |-> NoOutcome, bots |-> Bots,
     held |-> [found |-> FALSE, bot |-> Undefined], usage |-> NoError]

\* a testBot that leaves maxResults to the default of intelligentSearch
TestBotSearchDefault(bot, message) ==
    [method |-> "intelligentSearch",
     args |-> IntelligentSearchArgs(message, bot.contentType, Undefined)]

\* ContentstackService.intelligentSearch({ query: message,
\*     contentType: bot.contentType, maxResults: 3 })
TestBotSearch(bot, message) ==
    [method |-> "intelligentSearch",
     args |-> IntelligentSearchArgs(message, bot.contentType, Num(BotMaxResults))]

\* testBot up to await this.getBotById(id): getBotById has looked the bot up
\* (held.found tells whether find gave one, held.bot is the object it gave)
\* and the call has returned its promise
TestBot(id, message) ==
    /\ pathway.stage = "none"
    /\ LET found == {i \in 1..Len(Bots) : Bots[i].id = id}
       IN  pathway' =
               [Run("called", "testBot", message, NoSearch)
                   EXCEPT !.held = IF found = {} THEN @
                                   ELSE [found |-> TRUE,
                                         bot |-> Bots[CHOOSE i \in found : TRUE]]]
    /\ UNCHANGED <<serviceVars, inflight, pure, bulk, stream, registry>>

\* testBot from await this.getBotById(id) up to its await of
\* intelligentSearch: the checks of the object found, then the search
TestBotLookupResume ==
    /\ pathway.stage = "called"
    /\ LET bot == pathway.held.bot
       IN  IF ~pathway.held.found
           THEN pathway' = [pathway EXCEPT
                               !.stage = "done",
                               !.reply = Throw(NewError(<<"Bot not found">>))]
           ELSE IF ~bot.isActive
           THEN pathway' = [pathway EXCEPT
                               !.stage = "done",
                               !.reply = Throw(NewError(<<"Bot is not active">>))]
           ELSE pathway' = [pathway EXCEPT
                               !.stage = "tb_search",
                               !.search = TestBotSearch(bot, pathway.message),
                               !.botId = bot.id]
    /\ UNCHANGED <<serviceVars, inflight, pure, bulk, stream, registry>>

BotTestFailed(error) == Throw(NewError(<<"Bot test failed: ">> \o error.message))

\* the fetch of intelligentSearch settles: testBot gets the results and
\* awaits the LLM, or intelligentSearch catches and calls searchContent
TestBotSearchResume(resp) ==
    /\ pathway.stage = "tb_search"
    /\ LET a == pathway.search.args
           r == IntelligentSearchResult(resp, a.query, a.maxResults).outcome
       IN  IF r.kind = "throw"
           THEN pathway' = [pathway EXCEPT !.stage = "tb_fallback",
                                           !.fellBack = TRUE]
           ELSE pathway' = [pathway EXCEPT !.stage = "tb_llm",
                                           !.fetched = Fetched(resp),
                                           !.results = r.value,
                                           !.context = BotContext(r.value)]
    /\ UNCHANGED <<serviceVars, inflight, pure, bulk, stream, registry>>

\* the fetch of the fallback searchContent settles
TestBotFallbackResume(resp) ==
    /\ pathway.stage = "tb_fallback"
    /\ LET a == FallbackArgs(pathway.search.args)
           r == SearchContentResult(resp, a.query, a.maxResults).outcome
       IN  IF r.kind = "throw"
           THEN pathway' = [pathway EXCEPT !.stage = "done",
                                           !.fetched = Fetched(resp),
                                           !.reply = BotTestFailed(r.error)]
           ELSE pathway' = [pathway EXCEPT !.stage = "tb_llm",
                                           !.fetched = Fetched(resp),
                                           !.results = r.value,
                                           !.context = BotContext(r.value)]
    /\ UNCHANGED <<serviceVars, inflight, pure, bulk, stream, registry>>

\* the LLM settles.  When it has failed the catch rethrows.  Otherwise
\* testBot calls updateBotUsage, which counts the conversation and saves
\* before it returns its promise (it has no await), and testBot awaits that
\* promise: the count is in the list and the call is still pending
TestBotLlmResume(answered, saved) ==
    /\ pathway.stage = "tb_llm"
    /\ LET SaveError == NewError(<<"Failed to save bot data">>)
           LlmError ==
               NewError(<<"Failed to generate response from openrouter: ",
                          "timeout">>)
           \* updateBotUsage up to saveBots
           UsageCounted(bots, id) ==
               [i \in 1..Len(bots) |->
                   IF bots[i].id = id
                   THEN [bots[i] EXCEPT !.conversationCount = @ + 1]
                   ELSE bots[i]]
       IN  IF ~answered
           THEN /\ saved
                /\ pathway' = [pathway EXCEPT !.stage = "done",
                                              !.reply = BotTestFailed(LlmError)]
           ELSE pathway' =
                    [pathway EXCEPT
                        !.stage = "tb_usage",
                        !.bots = UsageCounted(@, pathway.botId),
                        !.usage = IF saved THEN NoError ELSE SaveError]
    /\ UNCHANGED <<serviceVars, inflight, pure, bulk, stream, registry>>

\* testBot from await this.updateBotUsage(id) on: it returns its result, or
\* its catch rethrows the error of saveBots
TestBotUsageResume ==
    /\ pathway.stage = "tb_usage"
    /\ pathway' =
           [pathway EXCEPT
               !.stage = "done",
               !.reply = IF pathway.usage = NoError
                         THEN Return([relevantContent |-> Len(pathway.results),
                                      sources |-> pathway.results])
                         ELSE BotTestFailed(pathway.usage)]
    /\ UNCHANGED <<serviceVars, inflight, pure, bulk, stream, registry>>

\* ContentstackService.searchContent({ query: message, contentType, maxResults })
\* with the defaults of the route
ChatSearch(message, contentType, maxResults) ==
    [method |-> "searchContent",
     args |-> SearchContentArgs(message, Default(contentType, Tours),
                                Default(maxResults, Num(ChatDefaultMaxResults)))]

\* POST /chat-with-content up to its await of searchContent; a request
\* without a message is answered 400
ChatWithContent(message, maxResults) ==
    /\ pathway.stage = "none"
    /\ IF ~(message.t = "string" /\ message.s # << >>)
       THEN pathway' = [Run("done", "chatWithContent", message, NoSearch)
                           EXCEPT !.reply = Return([status |-> 400]),
                                  !.requested = maxResults]
       ELSE pathway' = [Run("cc_search", "chatWithContent", message,
                            ChatSearch(message, Undefined, maxResults))
                           EXCEPT !.requested = maxResults]
    /\ UNCHANGED <<serviceVars, inflight, pure, bulk, stream, registry>>

\* the fetch of searchContent settles
ChatSearchResume(resp) ==
    /\ pathway.stage = "cc_search"
    /\ LET a == pathway.search.args
           r == SearchContentResult(resp, a.query, a.maxResults).outcome
       IN  IF r.kind = "throw"
           THEN pathway' = [pathway EXCEPT !.stage = "done",
                                           !.fetched = Fetched(resp),
                                           !.reply = Return([status |-> 500])]
           ELSE pathway' = [pathway EXCEPT !.stage = "cc_llm",
                                           !.fetched = Fetched(resp),
                                           !.results = r.value,
                                           !.context = ChatContext(r.value)]
    /\ UNCHANGED <<serviceVars, inflight, pure, bulk, stream, registry>>

\* the LLM settles and the route answers
ChatLlmResume(answered) ==
    /\ pathway.stage = "cc_llm"
    /\ pathway' =
           [pathway EXCEPT
               !.stage = "done",
               !.reply = IF answered
                         THEN Return([status |-> 200,
                                      relevantContent |-> pathway.results,
                                      sources |-> Len(pathway.results)])
                         ELSE Return([status |-> 500])]
    /\ UNCHANGED <<serviceVars, inflight, pure, bulk, stream, registry>>

PathwayNext ==
    LET PathMessages == {Undefined, QueryParis, QueryTokyoTour, QueryHotelStay}
        BotIds == {"b1", "b2", "b9"}
    IN  \/ \E id \in BotIds, message \in PathMessages : TestBot(id, message)
        \/ TestBotLookupResume
        \/ \E resp \in PathResponses : TestBotSearchResume(resp)
        \/ \E resp \in PathResponses : TestBotFallbackResume(resp)
        \/ \E answered \in BOOLEAN, saved \in BOOLEAN :
               TestBotLlmResume(answered, saved)
        \/ TestBotUsageResume
        \/ \E message \in PathMessages, maxResults \in MaxResultsValues :
               ChatWithContent(message, maxResults)
        \/ \E resp \in PathResponses : ChatSearchResume(resp)
        \/ \E answered \in BOOLEAN : ChatLlmResume(answered)

PathwaySpec == Init /\ [][PathwayNext]_vars

(***************************************************************************)
(* bulkCreateEntries: the entries are created one after the other, each    *)
(* published after its creation when publish is set.  The content store    *)
(* answers each request with success or with an error; an entry it has     *)
(* created stays in the store until a delete request removes it.  store,   *)
(* published and minted are the store's side (one content type): the       *)
(* entries it holds, the uids it has published, the last uid it gave out.  *)
(* Other requests call createEntry, updateEntry, publishEntry and          *)
(* deleteEntry on the same store, before, during and after a run; reply    *)
(* is what the last of these calls returned or threw.  Each call returns   *)
(* when its request is answered with success and throws otherwise, also    *)
(* for a uid the store does not hold; then nothing in the store changes.   *)
(* The entries are the elements of a JSON array: objects, or null.         *)
(***************************************************************************)
MaxBulkEntries == 3

MaxStoreCalls == 2

\* the position of the entry with this uid in the store, 0 when it has none
StoreIndex(store, uid) ==
    IF \E i \in 1..Len(store) : store[i].uid = uid
    THEN CHOOSE i \in 1..Len(store) : store[i].uid = uid
    ELSE 0

\* the loop moves to the next entryData, or bulkCreateEntries returns.
\* entryData.title of a null entryData throws in the try block, before
\* createEntry is called, and again in the catch block: the call rejects
NextEntry(run) ==
    IF run.index < Len(run.entries)
    THEN IF run.entries[run.index + 1] = Null
         THEN [run EXCEPT !.stage = "thrown", !.index = run.index + 1]
         ELSE [run EXCEPT !.stage = "creating", !.index = run.index + 1]
    ELSE [run EXCEPT !.stage = "returned", !.index = run.index + 1]

\* catch (error): results.failed.push({title, error: error.message})
AfterFailure(run, message) ==
    NextEntry([run EXCEPT !.failed =
                   Append(run.failed,
                          [title |-> run.entries[run.index].title,
                           error |-> message])])

\* results.successful.push({uid, title, published: publish})
AfterSuccess(run, entry) ==
    NextEntry([run EXCEPT !.successful =
                   Append(run.successful,
                          [uid |-> entry.uid, title |-> entry.title,
                           published |-> run.publish])])

BulkCreateEntries(entries, publish) ==
    /\ bulk.stage = "none"
    /\ bulk' = NextEntry([bulk EXCEPT !.entries = entries,
                                      !.publish = publish])
    /\ UNCHANGED <<serviceVars, inflight, pure, pathway, stream, registry>>

\* await this.createEntry(...) settles: the store has created the entry and
\* answered with it, or has answered with an error.  created holds the
\* entries the run's own createEntry calls returned
CreateEntryResume(created) ==
    /\ bulk.stage = "creating"
    /\ IF created
       THEN LET entry == [uid |-> bulk.minted + 1,
                          title |-> bulk.entries[bulk.index].title]
                stored == [bulk EXCEPT !.store = Append(bulk.store, entry),
                                       !.minted = bulk.minted + 1,
                                       !.created = Append(bulk.created, entry)]
            IN  bulk' = IF bulk.publish
                        THEN [stored EXCEPT !.stage = "publishing"]
                        ELSE AfterSuccess(stored, entry)
       ELSE bulk' = AfterFailure(bulk, <<"Failed to create entry: ", "upstream">>)
    /\ UNCHANGED <<serviceVars, inflight, pure, pathway, stream, registry>>

\* await this.publishEntry({uid: entry.uid, ...}) settles with the answer
\* of the store, whether or not the store still holds the entry
PublishEntryResume(done) ==
    /\ bulk.stage = "publishing"
    /\ LET entry == bulk.created[Len(bulk.created)]
           held == StoreIndex(bulk.store, entry.uid) # 0
       IN  IF done
           THEN bulk' = AfterSuccess(
                            [bulk EXCEPT !.published =
                                 IF held THEN bulk.published \cup {entry.uid}
                                 ELSE bulk.published],
                            entry)
           ELSE bulk' = AfterFailure(bulk, <<"Failed to publish entry: ", "upstream">>)
    /\ UNCHANGED <<serviceVars, inflight, pure, pathway, stream, registry>>

\* createEntry called by another request (POST /entries): returns
\* response.data.entry, or throws
createEntry(title, answered) ==
    /\ bulk.calls < MaxStoreCalls
    /\ bulk' = IF answered
               THEN [bulk EXCEPT
                        !.store = Append(bulk.store,
                                         [uid |-> bulk.minted + 1, title |-> title]),
                        !.minted = bulk.minted + 1,
                        !.calls = bulk.calls + 1,
                        !.reply = <<"createEntry", bulk.minted + 1, "entry">>]
               ELSE [bulk EXCEPT
                        !.calls = bulk.calls + 1,
                        !.reply = <<"createEntry", 0, "Failed to create entry: ">>]
    /\ UNCHANGED <<serviceVars, inflight, pure, pathway, stream, registry>>

\* updateEntry called by another request (PUT /entries/:uid): the store
\* sets the title of an entry it holds
updateEntry(uid, title, answered) ==
    /\ bulk.calls < MaxStoreCalls
    /\ LET at == StoreIndex(bulk.store, uid)
       IN  bulk' = IF answered
                   THEN [bulk EXCEPT
                            !.store = IF at # 0
                                      THEN [bulk.store EXCEPT ![at].title = title]
                                      ELSE bulk.store,
                            !.calls = bulk.calls + 1,
                            !.reply = <<"updateEntry", uid, "entry">>]
                   ELSE [bulk EXCEPT
                            !.calls = bulk.calls + 1,
                            !.reply = <<"updateEntry", uid, "Failed to update entry: ">>]
    /\ UNCHANGED <<serviceVars, inflight, pure, pathway, stream, registry>>

\* publishEntry called by another request (POST /entries/:uid/publish)
publishEntry(uid, answered) ==
    /\ bulk.calls < MaxStoreCalls
    /\ bulk' = IF answered
               THEN [bulk EXCEPT
                        !.published = IF StoreIndex(bulk.store, uid) # 0
                                      THEN bulk.published \cup {uid}
                                      ELSE bulk.published,
                        !.calls = bulk.calls + 1,
                        !.reply = <<"publishEntry", uid, "data">>]
               ELSE [bulk EXCEPT
                        !.calls = bulk.calls + 1,
                        !.reply = <<"publishEntry", uid, "Failed to publish entry: ">>]
    /\ UNCHANGED <<serviceVars, inflight, pure, pathway, stream, registry>>

\* deleteEntry called by another request (DELETE /entries/:uid): the store
\* removes the entry, which is then published nowhere
deleteEntry(uid, answered) ==
    /\ bulk.calls < MaxStoreCalls
    /\ LET at == StoreIndex(bulk.store, uid)
       IN  bulk' = IF answered
                   THEN [bulk EXCEPT
                            !.store = IF at # 0
                                      THEN SubSeq(bulk.store, 1, at - 1)
                                               \o SubSeq(bulk.store, at + 1,
                                                         Len(bulk.store))
                                      ELSE bulk.store,
                            !.published = bulk.published \ {uid},
                            !.calls = bulk.calls + 1,
                            !.reply = <<"deleteEntry", uid, "data">>]
                   ELSE [bulk EXCEPT
                            !.calls = bulk.calls + 1,
                            !.reply = <<"deleteEntry", uid, "Failed to delete entry: ">>]
    /\ UNCHANGED <<serviceVars, inflight, pure, pathway, stream, registry>>

BulkNext ==
    LET BulkInputs ==
            UNION {[1..n -> [t : {"object"}, title : {"A", "B"}] \cup {Null}] :
                      n \in 0..MaxBulkEntries}
        uids == 1..(bulk.minted + 1)
    IN  \/ \E entries \in BulkInputs, publish \in BOOLEAN :
               BulkCreateEntries(entries, publish)
        \/ \E created \in BOOLEAN : CreateEntryResume(created)
        \/ \E done \in BOOLEAN : PublishEntryResume(done)
        \/ \E answered \in BOOLEAN : createEntry("C", answered)
        \/ \E uid \in uids, answered \in BOOLEAN : updateEntry(uid, "D", answered)
        \/ \E uid \in uids, answered \in BOOLEAN : publishEntry(uid, answered)
        \/ \E uid \in uids, answered \in BOOLEAN : deleteEntry(uid, answered)

BulkSpec == Init /\ [][BulkNext]_vars

(***************************************************************************)
(* POST /stream and generateStreamingResponse.  The upstream response is a *)
(* readable stream: chunks, then 'end' or 'error'.  A chunk is its         *)
(* non-blank lines; of a line the code reads whether it includes '[DONE]'  *)
(* and, when it starts with 'data: ' and parses, its delta content ("" for *)
(* a line with none).  emitted lists the events of the returned emitter;   *)
(* the route's listeners run inside emit, so writes (the res.write calls)  *)
(* and ends (the res.end calls) change in the same step.                   *)
(***************************************************************************)
MaxChunks == 3
MaxLines == 2

\* stream.emit(event, payload) with the listeners of the route
Emit(run, event, payload) ==
    [run EXCEPT !.emitted = Append(run.emitted,
                                   [event |-> event, payload |-> payload]),
                !.writes = Append(run.writes,
                                  IF event = "end" THEN "[DONE]" ELSE event),
                !.ends = IF event = "data" THEN run.ends ELSE run.ends + 1]

\* the for loop of the 'data' handler, from the line at hand on
RECURSIVE HandleLines(_, _)
HandleLines(run, lines) ==
    IF lines = << >> THEN run
    ELSE IF lines[1].includesDone
    THEN Emit(run, "end", run.fullContent)
    ELSE IF lines[1].content # ""
    THEN HandleLines(
             Emit([run EXCEPT !.fullContent =
                       Append(run.fullContent, lines[1].content)],
                  "data", lines[1].content),
             Tail(lines))
    ELSE HandleLines(run, Tail(lines))

GenerateStreamingResponse(configured) ==
    /\ stream.stage = "none"
    /\ stream' = [stage |-> IF configured THEN "requesting" ELSE "rejected",
                  chunks |-> 0, fullContent |-> << >>, emitted |-> << >>,
                  writes |-> << >>, ends |-> 0]
    /\ UNCHANGED <<serviceVars, inflight, pure, pathway, bulk, registry>>

\* await this.makeStreamingAPIRequest(...) settles; on failure the error
\* is emitted from a timer, after the route has attached its listeners
StreamingRequestResume(answered) ==
    /\ stream.stage = "requesting"
    /\ stream' = [stream EXCEPT !.stage = IF answered THEN "open" ELSE "timer"]
    /\ UNCHANGED <<serviceVars, inflight, pure, pathway, bulk, registry>>

DeferredError ==
    /\ stream.stage = "timer"
    /\ stream' = Emit([stream EXCEPT !.stage = "closed"], "error",
                      "Failed to generate streaming response")
    /\ UNCHANGED <<serviceVars, inflight, pure, pathway, bulk, registry>>

UpstreamData(chunk) ==
    /\ stream.stage = "open"
    /\ stream.chunks < MaxChunks
    /\ stream' = HandleLines([stream EXCEPT !.chunks = stream.chunks + 1], chunk)
    /\ UNCHANGED <<serviceVars, inflight, pure, pathway, bulk, registry>>

UpstreamEnd ==
    /\ stream.stage = "open"
    /\ stream' = Emit([stream EXCEPT !.stage = "closed"], "end",
                      stream.fullContent)
    /\ UNCHANGED <<serviceVars, inflight, pure, pathway, bulk, registry>>

UpstreamError ==
    /\ stream.stage = "open"
    /\ stream' = Emit([stream EXCEPT !.stage = "closed"], "error", "upstream")
    /\ UNCHANGED <<serviceVars, inflight, pure, pathway, bulk, registry>>

StreamNext ==
    LET Lines == {[includesDone |-> TRUE, content |-> ""],
                  [includesDone |-> FALSE, content |-> "Hi"],
                  [includesDone |-> FALSE, content |-> ""]}
    IN  \/ \E configured \in BOOLEAN : GenerateStreamingResponse(configured)
        \/ \E answered \in BOOLEAN : StreamingRequestResume(answered)
        \/ DeferredError
        \/ \E chunk \in UNION {[1..n -> Lines] : n \in 0..MaxLines} :
               UpstreamData(chunk)
        \/ UpstreamEnd
        \/ UpstreamError

StreamSpec == Init /\ [][StreamNext]_vars

(***************************************************************************)
(* BotService: the list this.bots, the file saveBots writes it to, and the *)
(* calls that change them.  Ids are those uuidv4 hands out, numbered in    *)
(* the order of issue; the times of new Date() are the numbers of the      *)
(* calls.  Every call that writes the list ends with saveBots, which       *)
(* writes the file or throws and leaves it as it was.  testBot and         *)
(* duplicateBot look the bot up, hold the object they found and await:     *)
(* tests and copies are the calls suspended there, any number of them,     *)
(* and other calls run in between.  updateBot puts a new object into the   *)
(* list, so a held object keeps the name and isActive it was found with.   *)
(* last is the latest step of a call and how it ended.                     *)
(***************************************************************************)
MaxCalls == 4
MaxBots == 2

\* this.bots.findIndex(bot => bot.id === id), 0 for -1
BotIndex(bots, id) ==
    IF \E i \in 1..Len(bots) : bots[i].id = id
    THEN CHOOSE i \in 1..Len(bots) :
             bots[i].id = id /\ \A j \in 1..(i - 1) : bots[j].id # id
    ELSE 0

SaveFailed == "Failed to save bot data"

\* a step of a call is over: its time is taken and last records it; when
\* the step ran saveBots and the write succeeded, the file holds the list
Called(run, bots, written, method, id, input, result) ==
    [run EXCEPT !.bots = bots,
                !.file = IF written THEN bots ELSE run.file,
                !.clock = run.clock + 1,
                !.last = [op |-> method, id |-> id, input |-> input,
                          outcome |-> result, at |-> run.clock + 1]]

\* the constructor, at the first start (no data file: []) and at every
\* later start of the process (the file as saveBots left it); the calls
\* suspended in the old process are gone
LoadBots ==
    /\ registry' =
           IF registry.stage = "none"
           THEN [stage |-> "up", bots |-> << >>, file |-> << >>,
                 minted |-> 0, clock |-> 0, tests |-> << >>, copies |-> << >>,
                 last |-> [op |-> "loadBots", id |-> 0, input |-> << >>,
                           outcome |-> "return", at |-> 0]]
           ELSE [registry EXCEPT
                    !.bots = registry.file, !.tests = << >>, !.copies = << >>,
                    !.last = [op |-> "loadBots", id |-> 0, input |-> << >>,
                              outcome |-> "return", at |-> registry.clock]]
    /\ UNCHANGED <<serviceVars, inflight, pure, pathway, bulk, stream>>

createBot(name, saved) ==
    /\ registry.stage = "up"
    /\ registry.clock < MaxCalls
    /\ Len(registry.bots) + Len(registry.copies) < MaxBots
    /\ LET id == registry.minted + 1
           bot == [id |-> id, name |-> name,
                   createdAt |-> registry.clock + 1,
                   updatedAt |-> registry.clock + 1,
                   isActive |-> TRUE, conversationCount |-> 0]
       IN  registry' = Called([registry EXCEPT !.minted = id],
                              Append(registry.bots, bot), saved,
                              "createBot", id, name,
                              IF saved THEN "return" ELSE SaveFailed)
    /\ UNCHANGED <<serviceVars, inflight, pure, pathway, bulk, stream>>

\* an update that lets updateData overwrite id and createdAt
updateBotSpread(id, updateData, saved) ==
    /\ registry.stage = "up"
    /\ registry.clock < MaxCalls
    /\ LET botIndex == BotIndex(registry.bots, id)
           bot == registry.bots[botIndex]
           updatedBot ==
               [[k \in DOMAIN bot \cup DOMAIN updateData |->
                    IF k \in DOMAIN updateData THEN updateData[k] ELSE bot[k]]
                   EXCEPT !.updatedAt = registry.clock + 1]
       IN  IF botIndex = 0
           THEN /\ saved
                /\ registry' = Called(registry, registry.bots, FALSE,
                                      "updateBot", id, updateData, "null")
           ELSE registry' =
                    Called(registry,
                           [registry.bots EXCEPT ![botIndex] = updatedBot],
                           saved, "updateBot", id, updateData,
                           IF saved THEN "return" ELSE SaveFailed)
    /\ UNCHANGED <<serviceVars, inflight, pure, pathway, bulk, stream>>

\* {...bot, ...updateData, id: bot.id, createdAt: bot.createdAt, updatedAt}
updateBot(id, updateData, saved) ==
    /\ registry.stage = "up"
    /\ registry.clock < MaxCalls
    /\ LET botIndex == BotIndex(registry.bots, id)
           bot == registry.bots[botIndex]
           updatedBot ==
               [[k \in DOMAIN bot \cup DOMAIN updateData |->
                    IF k \in DOMAIN updateData THEN updateData[k] ELSE bot[k]]
                   EXCEPT !.id = bot.id, !.createdAt = bot.createdAt,
                          !.updatedAt = registry.clock + 1]
       IN  IF botIndex = 0
           THEN /\ saved
                /\ registry' = Called(registry, registry.bots, FALSE,
                                      "updateBot", id, updateData, "null")
           ELSE registry' =
                    Called(registry,
                           [registry.bots EXCEPT ![botIndex] = updatedBot],
                           saved, "updateBot", id, updateData,
                           IF saved THEN "return" ELSE SaveFailed)
    /\ UNCHANGED <<serviceVars, inflight, pure, pathway, bulk, stream>>

deleteBot(id, saved) ==
    /\ registry.stage = "up"
    /\ registry.clock < MaxCalls
    /\ LET botIndex == BotIndex(registry.bots, id)
       IN  IF botIndex = 0
           THEN /\ saved
                /\ registry' = Called(registry, registry.bots, FALSE,
                                      "deleteBot", id, << >>, "false")
           ELSE registry' =
                    Called(registry,
                           SubSeq(registry.bots, 1, botIndex - 1)
                               \o SubSeq(registry.bots, botIndex + 1,
                                         Len(registry.bots)),
                           saved, "deleteBot", id, << >>,
                           IF saved THEN "true" ELSE SaveFailed)
    /\ UNCHANGED <<serviceVars, inflight, pure, pathway, bulk, stream>>

\* duplicateBot up to its await of getBotById, which has looked the bot up
duplicateBot(id, newName) ==
    /\ registry.stage = "up"
    /\ registry.clock < MaxCalls
    /\ Len(registry.bots) + Len(registry.copies) < MaxBots
    /\ LET botIndex == BotIndex(registry.bots, id)
           held == [id |-> id, newName |-> newName, found |-> botIndex # 0,
                    originalBot |-> IF botIndex = 0 THEN Undefined
                                    ELSE registry.bots[botIndex]]
       IN  registry' = Called([registry EXCEPT !.copies = Append(@, held)],
                              registry.bots, FALSE,
                              "duplicateBot", id, newName, "pending")
    /\ UNCHANGED <<serviceVars, inflight, pure, pathway, bulk, stream>>

\* duplicateBot from its await on: the copy of the held object is pushed
DuplicateBotResume(k, saved) ==
    /\ registry.stage = "up"
    /\ k \in 1..Len(registry.copies)
    /\ LET held == registry.copies[k]
           run == [registry EXCEPT
                      !.copies = SubSeq(@, 1, k - 1) \o SubSeq(@, k + 1, Len(@))]
           fresh == registry.minted + 1
           duplicatedBot ==
               [held.originalBot EXCEPT
                   !.id = fresh,
                   !.name = IF held.newName # << >> THEN held.newName
                            ELSE held.originalBot.name \o <<" (Copy)">>,
                   !.createdAt = registry.clock + 1,
                   !.updatedAt = registry.clock + 1,
                   !.conversationCount = 0]
       IN  IF ~held.found
           THEN /\ saved
                /\ registry' = Called(run, registry.bots, FALSE, "duplicateBot",
                                      held.id, held.newName, "Bot not found")
           ELSE registry' =
                    Called([run EXCEPT !.minted = fresh],
                           Append(registry.bots, duplicatedBot), saved,
                           "duplicateBot", fresh, held.newName,
                           IF saved THEN "return" ELSE SaveFailed)
    /\ UNCHANGED <<serviceVars, inflight, pure, pathway, bulk, stream>>

\* testBot up to await this.getBotById(id), which has looked the bot up.
\* stage tells at which await the call is suspended; present, added and
\* saved tell what its updateBotUsage did: whether it found the bot in the
\* list, by how much it raised the count, whether its saveBots wrote
testBot(id) ==
    /\ registry.stage = "up"
    /\ registry.clock < MaxCalls
    /\ LET botIndex == BotIndex(registry.bots, id)
           held == [id |-> id, found |-> botIndex # 0, stage |-> "lookup",
                    isActive |-> IF botIndex = 0 THEN FALSE
                                 ELSE registry.bots[botIndex].isActive,
                    present |-> FALSE, added |-> 0, saved |-> TRUE]
       IN  registry' = Called([registry EXCEPT !.tests = Append(@, held)],
                              registry.bots, FALSE,
                              "testBot", id, << >>, "pending")
    /\ UNCHANGED <<serviceVars, inflight, pure, pathway, bulk, stream>>

\* testBot from await this.getBotById(id) up to its await of the search:
\* the object found decides 'Bot not found' and 'Bot is not active'
TestBotChecks(k) ==
    /\ registry.stage = "up"
    /\ k \in 1..Len(registry.tests)
    /\ registry.tests[k].stage = "lookup"
    /\ LET held == registry.tests[k]
           over == [registry EXCEPT
                       !.tests = SubSeq(@, 1, k - 1) \o SubSeq(@, k + 1, Len(@))]
       IN  IF ~held.found
           THEN registry' = Called(over, registry.bots, FALSE,
                                   "testBot", held.id, << >>, "Bot not found")
           ELSE IF ~held.isActive
           THEN registry' = Called(over, registry.bots, FALSE,
                                   "testBot", held.id, << >>, "Bot is not active")
           ELSE registry' = Called([registry EXCEPT !.tests[k].stage = "search"],
                                   registry.bots, FALSE,
                                   "testBot", held.id, << >>, "pending")
    /\ UNCHANGED <<serviceVars, inflight, pure, pathway, bulk, stream>>

\* the search and the LLM of a suspended testBot have settled.  When they
\* failed the catch rethrows.  Otherwise testBot calls updateBotUsage, which
\* counts the conversation of the bot, if it is still in the list, and
\* saves, all before it returns its promise (it has no await); testBot
\* awaits that promise, so the call is still pending
updateBotUsage(k, answered, saved) ==
    /\ registry.stage = "up"
    /\ k \in 1..Len(registry.tests)
    /\ registry.tests[k].stage = "search"
    /\ LET id == registry.tests[k].id
           botIndex == BotIndex(registry.bots, id)
           over == [registry EXCEPT
                       !.tests = SubSeq(@, 1, k - 1) \o SubSeq(@, k + 1, Len(@))]
       IN  IF ~answered
           THEN /\ saved
                /\ registry' = Called(over, registry.bots, FALSE, "testBot", id,
                                      << >>, "Bot test failed: upstream")
           ELSE IF botIndex = 0
           THEN /\ saved
                /\ registry' =
                       Called([registry EXCEPT !.tests[k].stage = "usage"],
                              registry.bots, FALSE, "updateBotUsage", id, << >>,
                              "return")
           ELSE registry' =
                    Called([registry EXCEPT !.tests[k].stage = "usage",
                                            !.tests[k].present = TRUE,
                                            !.tests[k].added = 1,
                                            !.tests[k].saved = saved],
                           [registry.bots EXCEPT
                               ![botIndex].conversationCount = @ + 1],
                           saved, "updateBotUsage", id, << >>,
                           IF saved THEN "return" ELSE SaveFailed)
    /\ UNCHANGED <<serviceVars, inflight, pure, pathway, bulk, stream>>

\* testBot from await this.updateBotUsage(id) on: it returns its result, or
\* its catch rethrows the error of saveBots
TestBotUsageDone(k) ==
    /\ registry.stage = "up"
    /\ k \in 1..Len(registry.tests)
    /\ registry.tests[k].stage = "usage"
    /\ LET held == registry.tests[k]
           over == [registry EXCEPT
                       !.tests = SubSeq(@, 1, k - 1) \o SubSeq(@, k + 1, Len(@))]
       IN  registry' = Called(over, registry.bots, FALSE, "testBot", held.id,
                              << >>,
                              IF held.saved THEN "return"
                              ELSE "Bot test failed: Failed to save bot data")
    /\ UNCHANGED <<serviceVars, inflight, pure, pathway, bulk, stream>>

BotNext ==
    LET up == registry.stage = "up"
        ids == IF up THEN 0..registry.minted ELSE {}
        \* req.body of PUT /:id, passed on as updateData; 0 is no bot's id
        \* and no call's time
        UpdateDatas ==
            {[name |-> <<"B">>], [isActive |-> FALSE], [conversationCount |-> 0]}
                \cup {[id |-> i, createdAt |-> 0] : i \in ids}
    IN  \/ LoadBots
        \/ \E saved \in BOOLEAN : createBot(<<"A">>, saved)
        \/ \E id \in ids, saved \in BOOLEAN :
               \E updateData \in UpdateDatas :
                   updateBot(id, updateData, saved)
        \/ \E id \in ids, saved \in BOOLEAN : deleteBot(id, saved)
        \/ \E id \in ids, newName \in {<< >>, <<"C">>} : duplicateBot(id, newName)
        \/ \E k \in 1..(IF up THEN Len(registry.copies) ELSE 0),
              saved \in BOOLEAN :
               DuplicateBotResume(k, saved)
        \/ \E id \in ids : testBot(id)
        \/ \E k \in 1..(IF up THEN Len(registry.tests) ELSE 0) : TestBotChecks(k)
        \/ \E k \in 1..(IF up THEN Len(registry.tests) ELSE 0),
              answered, saved \in BOOLEAN :
               updateBotUsage(k, answered, saved)
        \/ \E k \in 1..(IF up THEN Len(registry.tests) ELSE 0) :
               TestBotUsageDone(k)

BotSpec == Init /\ [][BotNext]_vars

(***************************************************************************)
(* Properties.                                                             *)
(***************************************************************************)
IsSearch == op \in {"searchContent", "intelligentSearch"}
Done == pc = "done"
Returned == Done /\ outcome.kind = "return"
Raised == Done /\ outcome.kind = "throw"
FetchSucceeded == Done /\ fetchError = NoError

\* a returned entry without the attributes a search attaches
RECURSIVE Strip(_)
Strip(entry) ==
    IF entry = << >> THEN << >>
    ELSE (IF Head(entry).k \in {"score", "relevance"} THEN << >>
          ELSE <<Head(entry)>>) \o Strip(Tail(entry))

\* where a returned entry stood in the fetched list
FetchIndex(entry) == CHOOSE k \in 1..Len(fetched) : fetched[k] = Strip(entry)

\* no field of the entry holds a number or an object
WellFormed(entry) ==
    \A i \in 1..Len(entry) : entry[i].v.t \in {"string", "null", "undefined"}

\* maxResults is zero, negative or not a number
InvalidMaxResults(v) == v.t # "number" \/ v.n <= 0

\* C1: every returned sequence has length <= maxResults and every returned
\* entry carries a score > 0.  Stated for the non-empty queries, the ones the
\* code scores, and a numeric maxResults; no sequence is shorter than empty,
\* so a negative maxResults bounds the length by 0.
C1_LengthAndPositiveScores ==
    (IsSearch /\ Returned /\ Truthy(args.query) /\ args.maxResults.t = "number")
        => /\ Len(outcome.value) <= Max2(args.maxResults.n, 0)
           /\ \A i \in 1..Len(outcome.value) :
                  /\ HasKey(outcome.value[i], "score")
                  /\ ScoreOf(outcome.value[i]) > 0

\* C2: for a non-empty query the returned sequence is sorted non-increasing
\* by score, and entries of equal score keep their fetch order.
C2_SortedAndStable ==
    (IsSearch /\ Returned /\ Truthy(args.query))
        => \A i, j \in 1..Len(outcome.value) :
               i < j =>
                   /\ ScoreOf(outcome.value[i]) >= ScoreOf(outcome.value[j])
                   /\ ScoreOf(outcome.value[i]) = ScoreOf(outcome.value[j])
                          => FetchIndex(outcome.value[i])
                                 < FetchIndex(outcome.value[j])

\* C2 witness: three entries returned, the first two tied and in fetch order,
\* the third fetched before both of them
C2_Witness ==
    /\ IsSearch /\ Returned /\ Truthy(args.query)
    /\ Len(outcome.value) = 3
    /\ ScoreOf(outcome.value[1]) = ScoreOf(outcome.value[2])
    /\ ScoreOf(outcome.value[2]) > ScoreOf(outcome.value[3])
    /\ FetchIndex(outcome.value[3]) = 1

\* C3: with maxResults <= 0 or non-numeric a search returns the empty
\* sequence and does not raise.  Stated for fetched lists of well-formed
\* entries, on which no scoring step raises.
C3_InvalidMaxResultsYieldsEmpty ==
    (IsSearch /\ FetchSucceeded /\ InvalidMaxResults(args.maxResults)
         /\ \A i \in 1..Len(fetched) : WellFormed(fetched[i]))
        => outcome = Return(<< >>)

\* C4: with an empty or absent query searchContent scores nothing and returns
\* exactly the first min(maxResults, number fetched) fetched entries, in fetch
\* order, as fetched.
C4_EmptyQueryFirstEntries ==
    (op = "searchContent" /\ FetchSucceeded /\ ~Truthy(args.query)
         /\ args.maxResults.t = "number")
        => /\ outcome = Return(SubSeq(fetched, 1,
                            Max2(0, Min2(args.maxResults.n, Len(fetched)))))
           /\ probes = NoProbes

\* C5: when the enhanced path of intelligentSearch fails, intelligentSearch
\* calls searchContent with the same query, contentType and maxResults, and
\* its caller never gets the error of the enhanced path: a call that ends
\* without the fallback ends with a result, and an error that reaches the
\* caller is the one searchContent raised.
C5_FallbackToSearchContent ==
    op = "intelligentSearch"
        => /\ fellBack
               => /\ fallbackArgs = args
                  /\ Len(requests) = 2
                  /\ requests[2] = [contentType |-> args.contentType,
                                    limit |-> Num(SearchFetchLimit)]
                  /\ caught # NoError
           /\ (Done /\ ~fellBack) => outcome.kind = "return"
           /\ Raised
               => /\ fellBack
                  /\ outcome.error # caught
                  /\ SubSeq(outcome.error.message, 1, 1) = SearchFailedPrefix

\* C5 witness: the fetch of intelligentSearch failed and the caller got the
\* entries searchContent found
C5_Witness ==
    /\ op = "intelligentSearch" /\ Returned /\ fellBack
    /\ caught.message = FetchFailedPrefix \o <<"Network Error">>
    /\ Len(outcome.value) = 2

\* the message of the store's answer when there is one, else the message of
\* the transport error
UpstreamMessage(error) ==
    IF error.respMsg = << >> THEN error.message ELSE error.respMsg

EndsWith(message, tail) ==
    /\ Len(tail) <= Len(message)
    /\ SubSeq(message, Len(message) - Len(tail) + 1, Len(message)) = tail

\* C6: when the fetch of searchContent or of a direct getAllEntries fails,
\* the call raises an error whose message carries the upstream message.
C6_FetchFailurePropagates ==
    (Done /\ fetchError # NoError
          /\ (op \in {"searchContent", "getAllEntries"} \/ fellBack))
        => /\ outcome.kind = "throw"
           /\ UpstreamMessage(fetchError) # << >>
           /\ EndsWith(outcome.error.message, UpstreamMessage(fetchError))

\* C6 witness: searchContent raised after the store refused the token
C6_Witness ==
    /\ op = "searchContent" /\ Raised
    /\ fetchError.respMsg = <<"Invalid access token">>
    /\ outcome.error.message
           = <<"Failed to search content: ", "Failed to fetch entries: ",
               "Invalid access token">>

\* C7 as claimed: every search sends exactly one fetch before it completes,
\* on every path, and never has two outstanding.
C7_ExactlyOneFetch ==
    /\ outstanding <= 1
    /\ (IsSearch /\ Done) => fetchCount = 1

\* C7 amended: a search sends one fetch, and an intelligentSearch whose
\* enhanced path failed sends a second one, through searchContent, after the
\* first has settled; never are two outstanding.
C7_OneFetchPerAttempt ==
    /\ outstanding <= 1
    /\ IsSearch
           => /\ fetchCount = IF fellBack THEN 2 ELSE 1
              /\ Len(requests) = fetchCount
              /\ outstanding = IF Done THEN 0 ELSE 1

\* C7 witness: an intelligentSearch completed after two fetches
C7_Witness ==
    /\ op = "intelligentSearch" /\ Done /\ fellBack
    /\ fetchCount = 2 /\ outstanding = 0

\* C8: a fetched entry whose title or description is missing or malformed
\* never makes a search raise.
C8_MalformedFieldsNeverRaise ==
    (IsSearch /\ FetchSucceeded) => outcome.kind = "return"

\* C9: when its fetch returns no entry, intelligentSearch returns the empty
\* sequence for any query and maxResults and calls neither enhanceQuery nor
\* fuzzyMatch nor any scoring step.
C9_EmptyListSkipsScoring ==
    (op = "intelligentSearch" /\ Done /\ ~fellBack /\ fetched = << >>)
        => /\ outcome = Return(<< >>)
           /\ probes = NoProbes

\* C9 witness: an empty fetch under a non-empty query
C9_Witness ==
    /\ op = "intelligentSearch" /\ Done /\ ~fellBack /\ fetched = << >>
    /\ args.query = QueryParisFoodTour
    /\ args.maxResults = Num(MaxResultsHi)

\* C10: on the entries "Paris Getaway" / "romantic trip" and
\* "Tokyo Adventure" / "city tour" the query "paris" returns the first entry
\* alone; the second scores 0.
C10_ParisExample ==
    (IsSearch /\ FetchSucceeded /\ fetched = <<EntryParis, EntryTokyo>>
         /\ args.query = QueryParis
         /\ args.maxResults.t = "number" /\ args.maxResults.n >= 1)
        => /\ outcome.kind = "return"
           /\ Len(outcome.value) = 1
           /\ Strip(outcome.value[1]) = EntryParis
           /\ ScoreOf(outcome.value[1]) > 0
           /\ ScoreOf(PlainScoreEntry(EntryTokyo, PlainTerms(QueryParis.s)).entry) = 0
           /\ ScoreOf(IntelligentScoreEntry(EntryTokyo, QueryParis.s,
                          IntelligentTerms(QueryParis.s)).entry) = 0

\* C10 witness: intelligentSearch, with its default maxResults, on that input
C10_Witness ==
    /\ op = "intelligentSearch" /\ Returned /\ ~fellBack
    /\ fetched = <<EntryParis, EntryTokyo>>
    /\ args.query = QueryParis
    /\ args.maxResults = Num(DefaultMaxResults)
    /\ Len(outcome.value) = 1

(***************************************************************************)
(* The texts and counts the scoring rules speak of, written from the rules *)
(* and not from the map callbacks.                                         *)
(***************************************************************************)
\* the method whose map callback scored the entries the caller got
ScoredBySearchContent == op = "searchContent" \/ fellBack
ScoredSearch == IsSearch /\ Returned /\ Truthy(args.query)

TextOf(v) == IF v.t = "string" THEN ToLowerCase(v.s) ELSE << >>

FirstText(entry, keys) ==
    LET found == {i \in 1..Len(keys) : Truthy(Get(entry, keys[i]))}
    IN  IF found = {} THEN << >>
        ELSE TextOf(Get(entry, keys[CHOOSE i \in found : \A j \in found : i <= j]))

TitleText(entry) == FirstText(entry, <<"title">>)
PlainDescriptionText(entry) ==
    FirstText(entry, <<"description", "paris", "india", "content", "body">>)
IntelligentDescriptionText(entry) ==
    FirstText(entry, <<"description", "paris", "india">>)
WholeEntryText(entry) == ToLowerCase(JoinSpace(StringValues(entry)))
CombinedText(entry) == TitleText(entry) \o <<" ">> \o IntelligentDescriptionText(entry)

\* how many of the terms are substrings of text
CountIn(tt, text) == Cardinality({i \in 1..Len(tt) : Includes(text, tt[i])})
CountFuzzy(tt, text) == Cardinality({i \in 1..Len(tt) : fuzzyMatch(tt[i], text)})

\* the score the rule of searchContent gives, with w for the description
PlainRule(entry, tt, w) ==
    5 * CountIn(tt, TitleText(entry))
        + w * CountIn(tt, PlainDescriptionText(entry))
        + CountIn(tt, WholeEntryText(entry))

\* the score the rule of intelligentSearch gives, with w for the description
IntelligentRule(entry, q, tt, w) ==
    (IF Includes(CombinedText(entry), ToLowerCase(q)) THEN 10 ELSE 0)
        + 5 * CountIn(tt, TitleText(entry))
        + w * CountIn(tt, IntelligentDescriptionText(entry))
        + CountFuzzy(tt, CombinedText(entry))

\* the rules on the entries of the store and the queries of the callers
RuleKeys == EntryPool \X StringQueries \X {2, 3}

PlainRuleTable ==
    [k \in RuleKeys |->
        PlainRule(k[1], SplitSpace(ToLowerCase(k[2].s)), k[3])] @@ << >>

IntelligentRuleTable ==
    [k \in RuleKeys |->
        IntelligentRule(k[1], k[2].s,
                        SplitSpace(ToLowerCase(enhanceQuery(k[2].s))), k[3])]
        @@ << >>

\* the fetched entries the caller did not get
Dropped ==
    {i \in 1..Len(fetched) :
        \A j \in 1..Len(outcome.value) : Strip(outcome.value[j]) # fetched[i]}

\* C11: the searches never modify the fetched entry objects; score and
\* relevance go to fresh copies, so after a search the fetched entries have
\* the fields and values they had when fetched.  The entries are those of
\* every fetch of the call, the fetch of a caught intelligentSearch included.
C11_FetchedEntriesUnchanged ==
    pure.stage \in {"caught", "values"}
        => /\ Len(pure.objects) = Len(pure.fetched)
           /\ \A i \in 1..Len(pure.objects) :
                  /\ pure.objects[i].fetched = pure.fetched[i]
                  /\ pure.objects[i].now = pure.fetched[i]
                  /\ ~HasKey(pure.objects[i].now, "score")
                  /\ ~HasKey(pure.objects[i].now, "relevance")

\* C11 witness: intelligentSearch fetched three entries and scored them, and
\* returned two of them as copies that carry score and relevance
C11_Witness ==
    /\ pure.stage = "values"
    /\ pure.method = "intelligentSearch" /\ ~pure.fellBack
    /\ pure.query = QueryParis
    /\ Len(pure.fetched) = 3 /\ Len(pure.objects) = 3
    /\ pure.outcome.kind = "return"
    /\ Len(pure.outcome.value) = 2
    /\ HasKey(pure.outcome.value[1], "score")
    /\ HasKey(pure.outcome.value[1], "relevance")
    /\ Strip(pure.outcome.value[1]) = pure.objects[1].now

\* the callbacks of intelligentSearch ran on the first entry and threw on
\* the second; searchContent fetched again and scored its own entries
FirstFetchObjectsKept ==
    /\ pure.stage = "values"
    /\ pure.method = "intelligentSearch" /\ pure.fellBack
    /\ Len(pure.objects) = 4
    /\ pure.objects[1].fetched = EntryParis
    /\ pure.objects[2].fetched = EntryBadDescription
    /\ pure.outcome.kind = "return"
    /\ Len(pure.outcome.value) >= 1

\* C13: every entry a scored search returns carries a score and a relevance,
\* the relevance being score / max(number of search terms, 1).
C13_ScoreAndRelevance ==
    ScoredSearch
        => \A i \in 1..Len(outcome.value) :
               /\ HasKey(outcome.value[i], "score")
               /\ HasKey(outcome.value[i], "relevance")
               /\ Get(outcome.value[i], "relevance")
                      = Ratio(ScoreOf(outcome.value[i]),
                              Max2(Len(termsUsed), 1))

\* some non-empty term occurs in the entry, or, under the rule of
\* intelligentSearch, the exact phrase or a fuzzy match does
Matches(entry) ==
    \/ \E i \in 1..Len(termsUsed) :
           /\ termsUsed[i] # << >>
           /\ IF ScoredBySearchContent
              THEN Includes(WholeEntryText(entry), termsUsed[i])
              ELSE \/ Includes(TitleText(entry), termsUsed[i])
                   \/ Includes(IntelligentDescriptionText(entry), termsUsed[i])
    \/ /\ ~ScoredBySearchContent
       /\ \/ Includes(CombinedText(entry), ToLowerCase(args.query.s))
          \/ CountFuzzy(termsUsed, CombinedText(entry)) > 0

\* C15: no search term is empty, whatever the spaces of the query, and an
\* entry in which no non-empty term occurs (nor, in intelligentSearch, the
\* exact phrase or a fuzzy match) is not returned.
C15_NoEmptyTerms ==
    ScoredSearch
        => /\ \A i \in 1..Len(termsUsed) : termsUsed[i] # << >>
           /\ \A i \in 1..Len(outcome.value) : Matches(Strip(outcome.value[i]))

\* C16: in intelligentSearch with a non-empty query the score of an entry is
\* 10 if title + " " + description, lowercased, contains the lowercased query
\* as given, plus, over the terms of the lowercased enhanced query, 5 per term
\* in the title, 2 per term in the description and 1 per term that
\* fuzzyMatch accepts.  Stated for the calls whose enhanced path completed.
C16_IntelligentScore ==
    (op = "intelligentSearch" /\ ScoredSearch /\ ~fellBack)
        => /\ \A i \in 1..Len(outcome.value) :
                  ScoreOf(outcome.value[i])
                      = IntelligentRuleTable[<<Strip(outcome.value[i]),
                                               args.query, 2>>]
           /\ \A i \in Dropped :
                  \/ IntelligentRuleTable[<<fetched[i], args.query, 2>>] = 0
                  \/ args.maxResults.t # "number"
                  \/ args.maxResults.n < 0
                  \/ Len(outcome.value) = args.maxResults.n

\* C16 witness: "hotel stay" on "Paris Nights" / "hotel stay": the phrase of
\* the query as given (10), the terms hotel, stay, accommodation, lodging,
\* stay of the enhanced query in the description (2 + 2 + 2) and their fuzzy
\* matches (1 + 1 + 1)
C16_Witness ==
    /\ op = "intelligentSearch" /\ ScoredSearch /\ ~fellBack
    /\ args.query = QueryHotelStay
    /\ Len(termsUsed) = 5
    /\ Len(outcome.value) >= 1
    /\ Strip(outcome.value[1]) = EntryNights
    /\ ScoreOf(outcome.value[1]) = 19

\* C17: in searchContent with a non-empty query the query is not enhanced
\* and the score of an entry is, over the terms of the lowercased query, 5
\* per term in the title, 3 per term in the description and 1 per term in the
\* space-joined string fields; no exact-phrase bonus, no fuzzy bonus.
C17_PlainScore ==
    (op = "searchContent" /\ ScoredSearch)
        => /\ termsUsed = SplitSpace(ToLowerCase(args.query.s))
           /\ ~probes.enhance /\ ~probes.fuzzy
           /\ \A i \in 1..Len(outcome.value) :
                  ScoreOf(outcome.value[i])
                      = PlainRuleTable[<<Strip(outcome.value[i]), args.query, 3>>]
           /\ \A i \in Dropped :
                  \/ PlainRuleTable[<<fetched[i], args.query, 3>>] = 0
                  \/ args.maxResults.t # "number"
                  \/ args.maxResults.n < 0
                  \/ Len(outcome.value) = args.maxResults.n

\* C17 witness: "city tour" on "Tokyo Adventure" / "city tour": both terms
\* are in the description and in the joined fields, none in the title
C17_Witness ==
    /\ op = "searchContent" /\ ScoredSearch
    /\ args.query = QueryCityTour
    /\ Len(outcome.value) >= 1
    /\ Strip(outcome.value[1]) = EntryTokyo
    /\ ScoreOf(outcome.value[1]) = 8

\* what the terms found in the description added to the score of a returned
\* entry: the score less what the other rules add
DescriptionShare(scored) ==
    IF ScoredBySearchContent
    THEN ScoreOf(scored) - PlainRuleTable[<<Strip(scored), args.query, 2>>]
             + 2 * CountIn(termsUsed, PlainDescriptionText(Strip(scored)))
    ELSE ScoreOf(scored) - IntelligentRuleTable[<<Strip(scored), args.query, 2>>]
             + 2 * CountIn(termsUsed, IntelligentDescriptionText(Strip(scored)))

TermsInDescription(scored) ==
    IF ScoredBySearchContent
    THEN CountIn(termsUsed, PlainDescriptionText(Strip(scored)))
    ELSE CountIn(termsUsed, IntelligentDescriptionText(Strip(scored)))

\* C18 as claimed: a term found in the description adds 2 in searchContent
\* and 3 in the search that feeds the bot's prompt context (intelligentSearch).
C18_DescriptionWeightsAsClaimed ==
    ScoredSearch
        => \A i \in 1..Len(outcome.value) :
               DescriptionShare(outcome.value[i])
                   = (IF ScoredBySearchContent THEN 2 ELSE 3)
                         * TermsInDescription(outcome.value[i])

\* C18 amended: a term found in the description adds 3 in searchContent and
\* 2 in intelligentSearch, the search that feeds the bot's prompt context.
C18_DescriptionWeights ==
    ScoredSearch
        => \A i \in 1..Len(outcome.value) :
               DescriptionShare(outcome.value[i])
                   = (IF ScoredBySearchContent THEN 3 ELSE 2)
                         * TermsInDescription(outcome.value[i])

\* C18 witness: both searches returned an entry with two terms in its
\* description: the bot's search, with maxResults = 3, here
C18_Witness ==
    /\ op = "intelligentSearch" /\ ScoredSearch /\ ~fellBack
    /\ args.maxResults = Num(3)
    /\ args.query = QueryCityTour
    /\ Len(outcome.value) >= 1
    /\ TermsInDescription(outcome.value[1]) = 2
    /\ DescriptionShare(outcome.value[1]) = 4

ParisFoodTourTerms ==
    <<<<"p","a","r","i","s">>, <<"f","o","o","d">>, <<"t","o","u","r">>, <<"c","u","i","s","i","n","e">>, <<"d","i","n","i","n","g">>, <<"r","e","s","t","a","u","r","a","n","t">>, <<"m","e","a","l">>>>

TermSet == {termsUsed[i] : i \in 1..Len(termsUsed)}

\* C20 as claimed: for "Paris food tour" intelligentSearch adds the food
\* synonyms and the travel synonyms to its search terms.
C20_FoodAndTravelSynonyms ==
    (op = "intelligentSearch" /\ Done /\ ~fellBack
         /\ args.query = QueryParisFoodTour /\ fetched # << >>)
        => {<<"c","u","i","s","i","n","e">>, <<"d","i","n","i","n","g">>, <<"r","e","s","t","a","u","r","a","n","t">>, <<"m","e","a","l">>,
            <<"t","r","i","p">>, <<"j","o","u","r","n","e","y">>, <<"v","a","c","a","t","i","o","n">>, <<"t","o","u","r">>} \subseteq TermSet

\* C20 amended: for "Paris food tour" intelligentSearch adds the food
\* synonyms alone: its terms are paris, food, tour, cuisine, dining,
\* restaurant, meal; no travel synonym is added, "travel" not being in the
\* query.
C20_FoodSynonymsOnly ==
    (op = "intelligentSearch" /\ Done /\ ~fellBack
         /\ args.query = QueryParisFoodTour /\ fetched # << >>)
        => /\ termsUsed = ParisFoodTourTerms
           /\ TermSet \cap {<<"t","r","i","p">>, <<"j","o","u","r","n","e","y">>, <<"v","a","c","a","t","i","o","n">>} = {}

\* C20 witness: such a call, on a non-empty store
C20_Witness ==
    /\ op = "intelligentSearch" /\ Returned /\ ~fellBack
    /\ args.query = QueryParisFoodTour
    /\ Len(fetched) = 2
    /\ Len(termsUsed) = 7

\* the pathway has called its search
Searched == pathway.stage # "none" /\ pathway.search.method # "none"
\* the pathway has built its prompt context
ContextBuilt == pathway.stage \in {"tb_llm", "tb_usage", "cc_llm"}
                    \/ (pathway.stage = "done" /\ pathway.context # << >>)

\* the message of the context that carries the found content, if any
ContentOf(context) ==
    LET carrying == {i \in 1..Len(context) :
                        \E j \in 1..Len(context[i].content) :
                            context[i].content[j] \in {BotContextHeader[1],
                                                       ChatContextHeader[1]}}
    IN  IF carrying = {} THEN << >>
        ELSE context[CHOOSE i \in carrying : TRUE].content

\* where the blocks of a content start
Marks(content) == {i \in 1..Len(content) : content[i] = "Title: "}
NthMark(content, n) ==
    CHOOSE i \in Marks(content) :
        Cardinality({j \in Marks(content) : j <= i}) = n

\* the n-th block, up to the blank line before the next one
NthBlock(content, n) ==
    SubSeq(content, NthMark(content, n),
           IF n = Cardinality(Marks(content)) THEN Len(content)
           ELSE NthMark(content, n + 1) - 2)

\* the content is one block per result, in the order of the results, with a
\* blank line between two blocks
OneBlockPerResult(content, results) ==
    /\ Cardinality(Marks(content)) = Len(results)
    /\ \A n \in 1..Len(results) :
           /\ NthBlock(content, n) = ContextBlock(results[n])
           /\ n > 1 => content[NthMark(content, n) - 1] = "\n\n"

\* C12 as claimed: the bot-testing and the chat-enhancement pathways both
\* call intelligentSearch with maxResults = 3, so their prompt context has at
\* most 3 blocks, one per returned entry in returned order.
C12_IntelligentSearchWithThree ==
    /\ Searched
           => /\ pathway.search.method = "intelligentSearch"
              /\ pathway.search.args.maxResults = Num(3)
    /\ ContextBuilt
           => /\ Cardinality(Marks(ContentOf(pathway.context))) <= 3
              /\ OneBlockPerResult(ContentOf(pathway.context), pathway.results)

\* C12 amended: testBot calls intelligentSearch with the message, the bot's
\* contentType and maxResults = 3, and its context has at most 3 blocks, one
\* per returned entry in returned order (no content message when nothing is
\* returned); POST /chat-with-content calls searchContent with the request's
\* maxResults (5 by default) and its context has one block per entry
\* searchContent returned, in returned order.
C12_PathwayContexts ==
    /\ (Searched /\ pathway.route = "testBot")
           => /\ pathway.search.method = "intelligentSearch"
              /\ pathway.search.args.query = pathway.message
              /\ pathway.search.args.maxResults = Num(3)
    /\ (Searched /\ pathway.route = "chatWithContent")
           => /\ pathway.search.method = "searchContent"
              /\ pathway.search.args.query = pathway.message
              /\ pathway.search.args.maxResults
                     = IF pathway.requested = Undefined THEN Num(5)
                       ELSE pathway.requested
    /\ ContextBuilt
           => /\ OneBlockPerResult(ContentOf(pathway.context), pathway.results)
              /\ pathway.route = "testBot"
                     => /\ Len(pathway.results) <= 3
                        /\ Len(pathway.context)
                               = IF pathway.results = << >> THEN 1 ELSE 2

\* C12 witness: testBot fetched four entries that all match and its context
\* holds the blocks of the first three
C12_Witness ==
    /\ pathway.stage = "tb_llm" /\ pathway.route = "testBot"
    /\ ~pathway.fellBack
    /\ pathway.message = QueryTokyoTour
    /\ Len(pathway.fetched) = 4
    /\ Len(pathway.results) = 3
    /\ Cardinality(Marks(pathway.context[2].content)) = 3
    /\ Strip(pathway.results[3]) = pathway.fetched[3]

\* the answers the fetches of an invocation got, in the order they settled
OwnAnswers(id) == SelectSeq(inflight.log, LAMBDA d : d.by = id)

\* the score the rule of the method gives an entry for a query: the rule of
\* searchContent for a searchContent, called directly or by the catch
RuleScore(plain, entry, query) ==
    IF plain THEN PlainRuleTable[<<entry, query, 3>>]
    ELSE IntelligentRuleTable[<<entry, query, 2>>]

\* the result of one completed invocation, from the parameters its caller
\* gave and the answers the network gave its own requests: the entries of
\* its own last answer that score for its own query, with those scores,
\* best first, as many as its own maxResults allows (ten when not given)
OwnResult(id) ==
    LET inv == inflight.calls[id]
        answers == OwnAnswers(id)
        last == answers[Len(answers)].resp
        plain == inv.op = "searchContent" \/ inv.fellBack
        limit == IF inv.given.maxResults = Undefined THEN 10
                 ELSE inv.given.maxResults.n
        own == last.entries.items
        scoring == {k \in 1..Len(own) :
                       RuleScore(plain, own[k], inv.given.query) > 0}
        value == inv.outcome.value
    IN  /\ Len(answers) = IF inv.fellBack THEN 2 ELSE 1
        /\ inv.fellBack
               <=> (inv.op = "intelligentSearch" /\ ~answers[1].resp.ok)
        /\ inv.outcome.kind = IF last.ok THEN "return" ELSE "throw"
        /\ last.ok
               => /\ Len(value) = Min2(limit, Cardinality(scoring))
                  /\ \A i \in 1..Len(value) :
                         \E k \in scoring :
                             /\ Strip(value[i]) = own[k]
                             /\ ScoreOf(value[i])
                                    = RuleScore(plain, own[k], inv.given.query)
                  /\ \A i, j \in 1..Len(value) :
                         /\ i < j => ScoreOf(value[i]) >= ScoreOf(value[j])
                         /\ i # j => Strip(value[i]) # Strip(value[j])
                  /\ \A k \in scoring :
                         (\A i \in 1..Len(value) : Strip(value[i]) # own[k])
                             => \A i \in 1..Len(value) :
                                    ScoreOf(value[i])
                                        >= RuleScore(plain, own[k],
                                                     inv.given.query)

\* C14: with several invocations in flight and their fetches settling in any
\* order, the result of each is determined by its own query, maxResults and
\* the entries its own fetch returned: it holds no entry and no score
\* produced for another invocation, and two invocations of the same method
\* given the same parameters and answered the same have the same result.
C14_InvocationsIsolated ==
    \A id \in 1..Len(inflight.calls) :
        inflight.calls[id].pc = "done"
            => /\ OwnResult(id)
               /\ \A other \in 1..Len(inflight.calls) :
                      (/\ inflight.calls[other].pc = "done"
                       /\ inflight.calls[other].op = inflight.calls[id].op
                       /\ inflight.calls[other].given = inflight.calls[id].given
                       /\ [n \in 1..Len(OwnAnswers(other)) |->
                              OwnAnswers(other)[n].resp]
                            = [n \in 1..Len(OwnAnswers(id)) |->
                                  OwnAnswers(id)[n].resp])
                          => inflight.calls[other].outcome
                                 = inflight.calls[id].outcome

\* C14 witness: two invocations with different queries whose fetches
\* interleaved: the second made completed first, the first fell back and
\* completed last, each with the result of its own entries
C14_Witness ==
    /\ Len(inflight.calls) = 2
    /\ inflight.calls[1].pc = "done" /\ inflight.calls[2].pc = "done"
    /\ inflight.calls[1].op = "intelligentSearch" /\ inflight.calls[1].fellBack
    /\ inflight.calls[2].turn = 2 /\ inflight.calls[1].turn = 3
    /\ <<inflight.log[1].by, inflight.log[2].by, inflight.log[3].by>>
           = <<1, 2, 1>>
    /\ inflight.calls[1].given.query = QueryParis
    /\ inflight.calls[2].given.query = QueryCityTour
    /\ inflight.log[3].resp # inflight.log[2].resp
    /\ inflight.calls[1].outcome.kind = "return"
    /\ inflight.calls[2].outcome.kind = "return"
    /\ Len(inflight.calls[1].outcome.value) = 2
    /\ Len(inflight.calls[2].outcome.value) = 1

\* two invocations of the same method given the same parameters and
\* answered the same, one before and one after the answer of the other
SameCallTwice ==
    /\ Len(inflight.calls) = 2
    /\ inflight.calls[1].pc = "done" /\ inflight.calls[2].pc = "done"
    /\ inflight.calls[1].op = inflight.calls[2].op
    /\ inflight.calls[1].given = inflight.calls[2].given
    /\ inflight.calls[1].fellBack
    /\ Len(inflight.log) = 4
    /\ <<inflight.log[1].by, inflight.log[2].by, inflight.log[3].by,
         inflight.log[4].by>> = <<1, 2, 1, 2>>
    /\ inflight.log[1].resp = inflight.log[2].resp
    /\ inflight.log[3].resp = inflight.log[4].resp
    /\ inflight.calls[1].outcome.kind = "return"
    /\ Len(inflight.calls[1].outcome.value) = 2

\* what a trigger key adds when it occurs in the lowercased query
Suffix(q, key, synonyms) ==
    IF Includes(ToLowerCase(q), key) THEN <<" ">> \o synonyms ELSE << >>

TravelSynonyms == <<"t","r","i","p"," ","j","o","u","r","n","e","y"," ","v","a","c","a","t","i","o","n"," ","t","o","u","r">>
FoodSynonyms == <<"c","u","i","s","i","n","e"," ","d","i","n","i","n","g"," ","r","e","s","t","a","u","r","a","n","t"," ","m","e","a","l">>
HotelSynonyms == <<"a","c","c","o","m","m","o","d","a","t","i","o","n"," ","l","o","d","g","i","n","g"," ","s","t","a","y">>
ActivitySynonyms == <<"a","t","t","r","a","c","t","i","o","n"," ","e","x","p","e","r","i","e","n","c","e"," ","t","h","i","n","g"," ","t","o"," ","d","o">>

\* C19: enhanceQuery(q) is q in its original case followed, for each of the
\* keys travel, food, hotel, activity in that order that occurs in the
\* lowercased q, by a space and the key's synonyms joined by spaces; q
\* unchanged when no key occurs.
C19_EnhanceQueryAppendsSynonyms ==
    pure.stage = "output"
        => /\ pure.enhanced
                  = pure.query
                      \o Suffix(pure.query, <<"t","r","a","v","e","l">>, TravelSynonyms)
                      \o Suffix(pure.query, <<"f","o","o","d">>, FoodSynonyms)
                      \o Suffix(pure.query, <<"h","o","t","e","l">>, HotelSynonyms)
                      \o Suffix(pure.query, <<"a","c","t","i","v","i","t","y">>, ActivitySynonyms)
           /\ (\A key \in {<<"t","r","a","v","e","l">>, <<"f","o","o","d">>, <<"h","o","t","e","l">>, <<"a","c","t","i","v","i","t","y">>} :
                   ~Includes(ToLowerCase(pure.query), key))
                  => pure.enhanced = pure.query

\* C19 witness: "HOTEL Food" keeps its case and gets the food synonyms
\* before the hotel ones
C19_Witness ==
    /\ pure.stage = "output"
    /\ pure.query = <<"H","O","T","E","L"," ","F","o","o","d">>
    /\ pure.enhanced = <<"H","O","T","E","L"," ","F","o","o","d">> \o <<" ">> \o FoodSynonyms
                           \o <<" ">> \o HotelSynonyms



(***************************************************************************)
(* The string functions (StringSpec)                                        *)
(***************************************************************************)
Applied == pure.stage = "values"

\* similarity > 0.7 on the exact fraction
ExceedsThreshold(similarity) == similarity.num * 10 > 7 * similarity.den

Whitespace == {" ", "\n", "\t"}

\* the maximal runs of non-whitespace characters of a text
RECURSIVE WhitespaceWords(_)
WhitespaceWords(text) ==
    IF text = << >> THEN {}
    ELSE IF text[1] \in Whitespace THEN WhitespaceWords(Tail(text))
    ELSE LET n == CHOOSE k \in 1..Len(text) :
                      /\ \A j \in 1..k : text[j] \notin Whitespace
                      /\ (k = Len(text) \/ text[k + 1] \in Whitespace)
         IN  {SubSeq(text, 1, n)}
                 \cup WhitespaceWords(SubSeq(text, n + 1, Len(text)))

FuzzyRule(term, words) ==
    \E w \in words : /\ Len(w) >= 3
                     /\ Len(term) >= 3
                     /\ ExceedsThreshold(calculateSimilarity(term, w))

\* C21: fuzzyMatch(term, text) is true exactly when some whitespace-separated
\* word of the text has at least 3 characters, the term has at least 3
\* characters, and their similarity is strictly greater than 0.7; it is
\* false whenever the term has fewer than 3 characters.
C21_FuzzyMatchOnWhitespaceWords ==
    Applied =>
        /\ pure.fuzzy = FuzzyRule(pure.term, WhitespaceWords(pure.text))
        /\ (Len(pure.term) < 3 => ~pure.fuzzy)

\* the same rule on the pieces between single spaces, which is what holds
C21_FuzzyMatchOnSpacePieces ==
    Applied =>
        /\ pure.fuzzy = FuzzyRule(pure.term,
                                  {SplitSpace(pure.text)[i] :
                                      i \in 1..Len(SplitSpace(pure.text))})
        /\ (Len(pure.term) < 3 => ~pure.fuzzy)

\* the reference distance between the suffixes a[i..] and b[j..]: the length
\* of the other when one is empty, the distance of the tails when the heads
\* are equal, else one more than the least of deletion, insertion and
\* substitution
RECURSIVE ReferenceFrom(_, _, _, _)
ReferenceFrom(a, b, i, j) ==
    IF i > Len(a) THEN Len(b) - j + 1
    ELSE IF j > Len(b) THEN Len(a) - i + 1
    ELSE IF a[i] = b[j] THEN ReferenceFrom(a, b, i + 1, j + 1)
    ELSE 1 + Min2(Min2(ReferenceFrom(a, b, i + 1, j),
                       ReferenceFrom(a, b, i, j + 1)),
                  ReferenceFrom(a, b, i + 1, j + 1))

ReferenceDistance(a, b) == ReferenceFrom(a, b, 1, 1)

\* C22: levenshteinDistance(a, b) is the reference Levenshtein distance,
\* with distance(a, "") = len(a) and distance("", b) = len(b), and
\* levenshteinDistance("kitten", "sitting") = 3.
C22_LevenshteinIsReference ==
    Applied =>
        /\ pure.distance = ReferenceDistance(pure.term, pure.text)
        /\ (pure.text = << >> => pure.distance = Len(pure.term))
        /\ (pure.term = << >> => pure.distance = Len(pure.text))
        /\ (pure.term = Words.kitten /\ pure.text = Words.sitting => pure.distance = 3)

C22_Witness ==
    /\ Applied
    /\ pure.term = Words.kitten
    /\ pure.text = Words.sitting
    /\ pure.distance = 3

\* C23: calculateSimilarity("night", "nacht") is 1 - 3/5 = 0.4: the edit
\* distance of the two words is 3 and the longer length is 5.
C23_NightNachtDistanceThree ==
    Applied /\ pure.term = Words.night /\ pure.text = Words.nacht =>
        /\ pure.distance = 3
        /\ pure.similarity.num * 5 = 2 * pure.similarity.den

\* C23 as the code computes it: the distance is 2 (i -> a, g -> c), the
\* similarity 1 - 2/5 = 0.6
C23_NightNachtDistanceTwo ==
    Applied /\ pure.term = Words.night /\ pure.text = Words.nacht =>
        /\ pure.distance = 2
        /\ pure.similarity = [num |-> 3, den |-> 5]
        /\ ~ExceedsThreshold(pure.similarity)

C23_Witness ==
    /\ Applied
    /\ pure.term = Words.night
    /\ pure.text = Words.nacht
    /\ pure.similarity = [num |-> 3, den |-> 5]

\* C24: calculateSimilarity(a, b) = calculateSimilarity(b, a)
\* = 1 - editDistance(a, b) / max(len(a), len(b)), also when the lengths are
\* equal, and calculateSimilarity("", "") = 1.
C24_SimilaritySymmetric ==
    Applied =>
        LET longest == Max2(Len(pure.term), Len(pure.text))
        IN  /\ pure.similarity = calculateSimilarity(pure.text, pure.term)
            /\ IF longest = 0
               THEN pure.similarity.num = pure.similarity.den
               ELSE /\ pure.similarity.den = longest
                    /\ pure.similarity.num =
                           longest - ReferenceDistance(pure.term, pure.text)

C24_Witness ==
    /\ Applied
    /\ Len(pure.term) = Len(pure.text)
    /\ pure.term # pure.text
    /\ pure.similarity.num > 0
    /\ pure.similarity.num < pure.similarity.den


(***************************************************************************)
(* bulkCreateEntries (BulkSpec)                                             *)
(***************************************************************************)
BulkReturned == bulk.stage = "returned"

Titles(records) == [i \in 1..Len(records) |-> records[i].title]

ObjectEntries ==
    bulk.stage # "none" =>
        \A i \in 1..Len(bulk.entries) : bulk.entries[i].t = "object"

\* xs is ys and zs merged, each keeping its order
RECURSIVE Interleaves(_, _, _)
Interleaves(xs, ys, zs) ==
    IF xs = << >> THEN ys = << >> /\ zs = << >>
    ELSE \/ /\ ys # << >>
            /\ ys[1] = xs[1]
            /\ Interleaves(Tail(xs), Tail(ys), zs)
         \/ /\ zs # << >>
            /\ zs[1] = xs[1]
            /\ Interleaves(Tail(xs), ys, Tail(zs))

\* C25: bulkCreateEntries handles every input entry once, in input order,
\* going on after a failure; on return every input entry is in exactly one
\* of results.successful and results.failed, and
\* successful.length + failed.length = entries.length.
C25_EveryEntryRecordedOnce ==
    bulk.stage # "none" =>
        LET handled == IF bulk.stage = "returned" THEN Len(bulk.entries)
                       ELSE bulk.index - 1
        IN  /\ bulk.stage \in {"creating", "publishing", "returned"}
            /\ BulkReturned => bulk.index = Len(bulk.entries) + 1
            /\ Len(bulk.successful) + Len(bulk.failed) = handled
            /\ Interleaves(Titles(SubSeq(bulk.entries, 1, handled)),
                           Titles(bulk.successful), Titles(bulk.failed))

\* the same for the lists whose entries are all objects, which holds
C25_ObjectEntriesRecordedOnce ==
    ObjectEntries => C25_EveryEntryRecordedOnce

\* C26: an entry reported in results.failed was not created in the store:
\* on return the entries created in the store are those of
\* results.successful.
C26_FailedEntriesNotCreated ==
    BulkReturned =>
        {bulk.created[i].uid : i \in 1..Len(bulk.created)}
            = {bulk.successful[i].uid : i \in 1..Len(bulk.successful)}


(***************************************************************************)
(* POST /stream (StreamSpec)                                                *)
(***************************************************************************)
EventsAt(event) ==
    IF stream.stage = "none" THEN {}
    ELSE {i \in 1..Len(stream.emitted) : stream.emitted[i].event = event}

\* C27: whatever the upstream chunks, end and error, the returned stream
\* emits 'end' at most once and no 'data' after 'end', so the route writes
\* '[DONE]' and ends the response at most once.
C27_EndEmittedOnce ==
    stream.stage # "none" =>
        /\ Cardinality(EventsAt("end")) <= 1
        /\ \A e \in EventsAt("end"), d \in EventsAt("data") : d < e
        /\ Cardinality({i \in 1..Len(stream.writes) :
                            stream.writes[i] = "[DONE]"}) <= 1
        /\ stream.ends <= 1


(***************************************************************************)
(* BotService (BotSpec)                                                     *)
(***************************************************************************)
Up == registry.stage = "up"

\* a step of the registry that is a call of one of the methods, ended or
\* (for testBot) suspended
CallOf(methods) ==
    /\ Up
    /\ registry'.last # registry.last
    /\ registry'.last.op \in methods

IdsOf(bots) == {bots[i].id : i \in 1..Len(bots)}

CountOf(bots, id) == bots[BotIndex(bots, id)].conversationCount

\* the step ends the testBot call suspended as tests[k]
EndsTest(k) ==
    /\ CallOf({"testBot"})
    /\ registry'.last.outcome # "pending"
    /\ k \in 1..Len(registry.tests)
    /\ registry'.tests
           = SubSeq(registry.tests, 1, k - 1)
                 \o SubSeq(registry.tests, k + 1, Len(registry.tests))

\* C28: under any interleaving of testBot, updateBot and deleteBot, a bot's
\* conversationCount goes up by exactly 1 with each testBot call on it that
\* returns successfully, is unchanged by a testBot call that fails (bot
\* missing, bot inactive, search or LLM failure, persistence failure), and
\* never decreases.  Stated step by step and call by call: no step lowers
\* the count of a bot; the updateBotUsage of a testBot call raises the count
\* of its bot by exactly 1; and a testBot call that ends has raised the
\* count of its bot by 1 when it returns (the bot being in the list when
\* updateBotUsage looked for it) and by 0 when it throws.
C28_CountFollowsSuccessfulTests ==
    [][(Up /\ Up') =>
          /\ \A id \in IdsOf(registry.bots) \cap IdsOf(registry'.bots) :
                 /\ CountOf(registry'.bots, id) >= CountOf(registry.bots, id)
                 /\ (CallOf({"updateBotUsage"}) /\ registry'.last.id = id)
                        => CountOf(registry'.bots, id)
                               = CountOf(registry.bots, id) + 1
          /\ \A k \in 1..Len(registry.tests) :
                 EndsTest(k) =>
                     IF registry'.last.outcome = "return"
                     THEN registry.tests[k].present
                              => registry.tests[k].added = 1
                     ELSE registry.tests[k].added = 0]_vars

\* the part of C28 without the persistence failure and without updateBot:
\* no testBot or deleteBot step lowers a count, and a testBot call that
\* throws before its updateBotUsage has run has raised no count
C28_CountUnchangedByEarlyFailures ==
    [][(Up /\ Up') =>
          /\ CallOf({"testBot", "updateBotUsage", "deleteBot"}) =>
                 \A id \in IdsOf(registry.bots) \cap IdsOf(registry'.bots) :
                     CountOf(registry'.bots, id) >= CountOf(registry.bots, id)
          /\ \A k \in 1..Len(registry.tests) :
                 (EndsTest(k) /\ registry.tests[k].stage # "usage")
                     => registry.tests[k].added = 0]_vars

\* C29: when saveBots throws, createBot, updateBot, deleteBot and
\* duplicateBot report the error and the list in memory is as it was before
\* the call.
C29_FailedSaveLeavesListUnchanged ==
    [][(/\ CallOf({"createBot", "updateBot", "deleteBot", "duplicateBot"})
        /\ registry'.last.outcome = SaveFailed)
          => registry'.bots = registry.bots]_vars

DistinctIds ==
    Up => \A i, j \in 1..Len(registry.bots) :
              registry.bots[i].id = registry.bots[j].id => i = j

\* C30: whatever updateData holds (id and createdAt included), updateBot
\* leaves the id and createdAt of the bot as they were and changes no other
\* bot; when no bot has the id it returns null and leaves the list
\* unchanged.  After any sequence of create, duplicate, update and delete the
\* ids of the list are pairwise distinct.
C30_UpdateKeepsIdentity ==
    [][/\ CallOf({"updateBot"}) =>
              LET botIndex == BotIndex(registry.bots, registry'.last.id)
              IN  IF botIndex = 0
                  THEN /\ registry'.last.outcome = "null"
                       /\ registry'.bots = registry.bots
                  ELSE /\ registry'.last.outcome # "null"
                       /\ Len(registry'.bots) = Len(registry.bots)
                       /\ registry'.bots[botIndex].id
                              = registry.bots[botIndex].id
                       /\ registry'.bots[botIndex].createdAt
                              = registry.bots[botIndex].createdAt
                       /\ \A j \in 1..Len(registry.bots) :
                              j # botIndex =>
                                  registry'.bots[j] = registry.bots[j]
       /\ DistinctIds']_vars

\* an update whose updateData supplied an id and a createdAt has been
\* applied to the second of two bots, which keeps its own
C30_Witness ==
    /\ Up
    /\ registry.last.op = "updateBot"
    /\ registry.last.outcome = "return"
    /\ Len(registry.bots) = 2
    /\ registry.last.id = registry.bots[2].id
    /\ registry.last.input = [id |-> registry.bots[1].id, createdAt |-> 0]
    /\ registry.bots[2].updatedAt = registry.last.at
    /\ registry.bots[2].createdAt > 0


\* two suspended tests of one bot both count, also after it was deactivated
TwoTestsOfInactiveBotCounted ==
    /\ Up
    /\ Len(registry.bots) = 1
    /\ ~registry.bots[1].isActive
    /\ registry.bots[1].conversationCount = 2

\* a copy made of a bot that was deleted while duplicateBot was suspended
CopyOfDeletedBot ==
    /\ Up
    /\ registry.last.op = "duplicateBot"
    /\ registry.last.outcome = "return"
    /\ Len(registry.bots) = 1
    /\ registry.bots[1].name = <<"A", " (Copy)">>
    /\ registry.bots[1].id = 2

\* a restart has loaded the list an earlier process saved
LoadedFromFile ==
    /\ Up
    /\ registry.last.op = "loadBots"
    /\ registry.bots # << >>

\* getAllEntries hands on all the entries the store answered with, also
\* when they are more than the limit it asked for
FetchedMoreThanLimit ==
    /\ pc = "done"
    /\ op = "getAllEntries"
    /\ requests[Len(requests)].limit = Num(1)
    /\ outcome.kind = "return"
    /\ Len(entryObjects) = 2

\* an entry the run created and reports as successful was deleted by another
\* request before the run returned
DeletedEntryReportedSuccessful ==
    /\ BulkReturned
    /\ Titles(bulk.store) = <<"B">>
    /\ bulk.store[1].uid = 2
    /\ Len(bulk.successful) = 2
    /\ bulk.successful[1].uid = 1
    /\ bulk.successful[2].uid = 2

\* after the run another request has created an entry and published it
PublishedAfterRun ==
    /\ BulkReturned
    /\ Len(bulk.successful) = 2
    /\ Len(bulk.store) = 3
    /\ bulk.store[3] = [uid |-> 3, title |-> "C"]
    /\ bulk.published = {3}
    /\ bulk.reply = <<"publishEntry", 3, "data">>

\* the run's publish request was answered with success after another request
\* had deleted the entry: the entry is reported successful
DeletedEntryReportedPublished ==
    /\ BulkReturned
    /\ bulk.publish
    /\ bulk.store = << >>
    /\ bulk.failed = << >>
    /\ bulk.successful = <<[uid |-> 1, title |-> "A", published |-> TRUE]>>
    /\ bulk.reply = <<"deleteEntry", 1, "data">>

\* updateEntry returns the store's answer for a uid the store does not hold
UpdateOfMissingEntryAnswered ==
    /\ bulk.store = << >>
    /\ bulk.reply = <<"updateEntry", 1, "entry">>

\* a testBot call of a missing bot is still suspended at its lookup while a
\* createBot made after it has run to its end
TestOfMissingBotPending ==
    /\ Up
    /\ Len(registry.tests) = 1
    /\ ~registry.tests[1].found
    /\ registry.last.op = "createBot"
    /\ registry.last.outcome = "return"

\* testBot has returned its promise and has not yet called the search
TestBotCalledOnly ==
    /\ pathway.stage = "called"
    /\ pathway.route = "testBot"
    /\ pathway.held.found
    /\ pathway.search = NoSearch

====
